---- MODULE Spec2Model ----
(***************************************************************************)
(* A model of the multi-signal context reranking engine of fancy_retriever: *)
(* EnhancedCombinedReranker.rerank and the scorers, the component          *)
(* extractor and the function relationship analyzer it drives.             *)
(*                                                                         *)
(* Python values are modelled as follows.                                  *)
(*   - a dict is a TLA+ record whose DOMAIN is the set of keys present;    *)
(*   - a float is the exact rational [t |-> "float", n, d] (d > 0, reduced);*)
(*     a str standing where a number is expected is [t |-> "str", n, d],   *)
(*     n/d being the number its text denotes;                              *)
(*   - an identifier is a sequence of one-character strings, "" is << >>;  *)
(*   - a loop that raises part-way keeps the mutations made so far.        *)
(***************************************************************************)
EXTENDS Integers, Sequences, FiniteSets, TLC

(***************************************************************************)
(* Bounds of the model.                                                    *)
(***************************************************************************)
\* The longest context batch passed to one rerank call.
MaxCtx == 2
\* The number of rerank calls made on the one orchestrator instance.
MaxCalls == 2

(***************************************************************************)
(* Norm(x) is x.  Comparing a value with itself walks the whole of it, so  *)
(* the sets inside an input of the model are put in order once, where the  *)
(* input is defined, and not while the actions read it.                    *)
(***************************************************************************)
Norm(x) == IF x = x THEN x ELSE x

(***************************************************************************)
(* Numbers.                                                                *)
(***************************************************************************)
Abs(x) == IF x < 0 THEN -x ELSE x

RECURSIVE GCD(_, _)
GCD(a, b) == IF b = 0 THEN a ELSE GCD(b, a % b)

\* The float n/d, d > 0.
Flt(n, d) ==
    LET g == GCD(Abs(n), d)
    IN  [n |-> n \div g, d |-> d \div g, t |-> "float"]

\* The str whose text denotes n/d.
Str(n, d) == [n |-> Flt(n, d).n, d |-> Flt(n, d).d, t |-> "str"]

IsStr(x) == x.t = "str"

Zero == Flt(0, 1)
One == Flt(1, 1)

Add(a, b) ==
    LET g == GCD(a.d, b.d)
    IN  Flt(a.n * (b.d \div g) + b.n * (a.d \div g), (a.d \div g) * b.d)

Neg(a) == Flt(-a.n, a.d)

Sub(a, b) == Add(a, Neg(b))

Mul(a, b) ==
    LET g1 == GCD(Abs(a.n), b.d)
        g2 == GCD(Abs(b.n), a.d)
    IN  Flt((a.n \div g1) * (b.n \div g2), (a.d \div g2) * (b.d \div g1))

\* a / b for b # 0.
Div(a, b) ==
    IF b.n > 0 THEN Mul(a, Flt(b.d, b.n)) ELSE Mul(a, Flt(-b.d, -b.n))

Lt(a, b) ==
    LET g == GCD(a.d, b.d)
    IN  a.n * (b.d \div g) < b.n * (a.d \div g)

Le(a, b) == ~Lt(b, a)

\* The float of an integer count.
Num(k) == Flt(k, 1)

MaxOf(S) == CHOOSE x \in S : \A y \in S : Le(y, x)
MinOf(S) == CHOOSE x \in S : \A y \in S : Le(x, y)

MinNat(S) == CHOOSE x \in S : \A y \in S : x <= y

(***************************************************************************)
(* Dicts, lists and identifiers.                                           *)
(***************************************************************************)
\* d[k] = v on a dict.
Set(d, k, v) == (k :> v) @@ d

\* d.get(k, default).
Get(d, k, default) == IF k \in DOMAIN d THEN d[k] ELSE default

Has(d, k) == k \in DOMAIN d

Range(s) == {s[i] : i \in 1..Len(s)}

UpperLetters ==
    <<"A", "B", "C", "D", "E", "F", "G", "H", "I", "J", "K", "L", "M",
      "N", "O", "P", "Q", "R", "S", "T", "U", "V", "W", "X", "Y", "Z">>

LowerLetters ==
    <<"a", "b", "c", "d", "e", "f", "g", "h", "i", "j", "k", "l", "m",
      "n", "o", "p", "q", "r", "s", "t", "u", "v", "w", "x", "y", "z">>

\* One character of str.lower().
LowerChar(c) ==
    IF c \in Range(UpperLetters)
    THEN LowerLetters[CHOOSE i \in 1..Len(UpperLetters) : UpperLetters[i] = c]
    ELSE c

\* str.lower().
Lower(s) == [i \in 1..Len(s) |-> LowerChar(s[i])]

\* Python's `x in y` on two strs.
IsSubstr(x, y) ==
    \E i \in 0..(Len(y) - Len(x)) : SubSeq(y, i + 1, i + Len(x)) = x

\* A for-loop over a list of dicts whose body F mutates one dict and may
\* raise: the dicts before the raising one are fully processed, the raising
\* one keeps what was written before the raise, the rest are untouched.
LoopUpTo(cs, res, k) ==
    [ctxs |-> [i \in 1..Len(cs) |-> IF i <= k THEN res[i].ctx ELSE cs[i]],
     raised |-> k <= Len(cs)]

\* The index of the first iteration that raises, Len(res) + 1 when none does.
FirstRaise(res) ==
    MinNat({i \in 1..Len(res) : res[i].raised} \cup {Len(res) + 1})

Loop(cs, res) == LoopUpTo(cs, res, FirstRaise(res))

ForEach(cs, F(_)) == Loop(cs, [i \in 1..Len(cs) |-> F(cs[i])])

Done(c) == [ctx |-> c, raised |-> FALSE]
Raise(c) == [ctx |-> c, raised |-> TRUE]

\* sorted(cs, key=final_score, reverse=True): a stable insertion of each
\* element after the elements whose key is not smaller.
RECURSIVE InsertDesc(_, _)
InsertDesc(sorted, c) ==
    IF sorted = << >> THEN << c >>
    ELSE IF Lt(Get(Head(sorted), "final_score", Zero), Get(c, "final_score", Zero))
         THEN << c >> \o sorted
         ELSE << Head(sorted) >> \o InsertDesc(Tail(sorted), c)

RECURSIVE SortDescFrom(_, _, _)
SortDescFrom(cs, i, acc) ==
    IF i > Len(cs) THEN acc ELSE SortDescFrom(cs, i + 1, InsertDesc(acc, cs[i]))

\* A sort without reverse=True.
SortedAscending(cs) ==
    [i \in 1..Len(cs) |-> SortDescFrom(cs, 1, << >>)[Len(cs) + 1 - i]]

SortedByFinalScore(cs) == SortDescFrom(cs, 1, << >>)

\* The end of a scorer's rerank: `return sorted(...)`, or in its except
\* clause `return contexts`.
ScorerReturn(r) == IF r.raised THEN r.ctxs ELSE SortedByFinalScore(r.ctxs)

(***************************************************************************)
(* Source texts.  A text is given by what the parsers and the regular      *)
(* expressions of the program find in it:                                  *)
(*   syntax_ok    ast.parse(text) succeeds                                 *)
(*   nlines       len(text.split('\n'))                                    *)
(*   funcs        the FunctionDef nodes in ast.walk order, each with       *)
(*                top (a child of the module), name, params, returns (an   *)
(*                annotation, or "None"), docstring (ast.get_docstring is  *)
(*                not empty), the counts of If/For/While/Try/ExceptHandler *)
(*                nodes under it, calls (the Call nodes under it in walk   *)
(*                order: id, and attr = TRUE for obj.id(...)), and         *)
(*                unparsed = len(ast.unparse(node).split('\n'))            *)
(*   imports, from_imports, classes   as the walk finds them               *)
(*   contains     the lower-case strings that occur in text.lower()        *)
(*   quoted_doc   the text holds a """...""" or a three-quote pair         *)
(*   returns_word re.search(r'\breturn\b', text) matches                   *)
(*   rx           what the regular expressions of the fallback find        *)
(***************************************************************************)
None == "None"

\* The value under 'function_calls': a list of names (ASTComponentExtractor)
\* or an int (DataProcessor.extract_code_components counts the calls).
List(items) == [n |-> 0, t |-> "list", items |-> items]
IntVal(k) == [n |-> k, t |-> "int", items |-> << >>]
IsList(v) == v.t = "list"

FuncDef(name, top, params, returns, docstring, ifs, fors, whiles, trys, excepts, calls, unparsed) ==
    [name |-> name, top |-> top, params |-> params, returns |-> returns,
     docstring |-> docstring, calls |-> calls, unparsed |-> unparsed,
     if_count |-> ifs, for_count |-> fors, while_count |-> whiles,
     try_count |-> trys, except_count |-> excepts]

NameCall(id) == [id |-> id, attr |-> FALSE]
AttrCall(id) == [id |-> id, attr |-> TRUE]

\* round(x, 1) of a non-negative float.
Round1(x) == Flt((x.n * 20 + x.d) \div (2 * x.d), 10)

\* _compute_complexity with every loop counted once.
compute_complexity_flat(c) ==
    LET control == Add(Num(c.if_count + c.for_count + c.while_count
                           + c.try_count),
                       Mul(Num(c.except_count), Flt(1, 2)))
        callsAndParams == Add(Mul(Num(Len(c.function_calls.items)), Flt(1, 2)),
                              Mul(Num(Len(c.parameters)), Flt(1, 2)))
        lines == Mul(Num(c.line_count), Flt(1, 10))
    IN  Set(c, "complexity", Round1(Add(Add(control, callsAndParams), lines)))

\* ASTComponentExtractor._compute_complexity
compute_complexity(c) ==
    LET control == Add(Num(c.if_count + c.for_count * 2 + c.while_count * 2
                           + c.try_count),
                       Mul(Num(c.except_count), Flt(1, 2)))
        callsAndParams == Add(Mul(Num(Len(c.function_calls.items)), Flt(1, 2)),
                              Mul(Num(Len(c.parameters)), Flt(1, 2)))
        lines == Mul(Num(c.line_count), Flt(1, 10))
    IN  Set(c, "complexity", Round1(Add(Add(control, callsAndParams), lines)))

\* The default structure for components (both extraction paths).
DefaultComponents(text) ==
    [if_count |-> 0, for_count |-> 0, while_count |-> 0, try_count |-> 0,
     except_count |-> 0, function_calls |-> List(<< >>), parameters |-> << >>,
     line_count |-> text.nlines, text |-> text, function_name |-> << >>,
     return_type |-> None, has_docstring |-> FALSE, imports |-> << >>,
     from_imports |-> << >>, else_count |-> 0, functions_defined |-> << >>,
     classes_defined |-> << >>, complexity |-> Zero, error_handling |-> FALSE]

\* The names of `calls` that _analyze_function_body appends: each once, in
\* walk order, unless it is one of functions_defined.
RECURSIVE CollectCalls(_, _, _, _)
CollectCalls(calls, i, defined, acc) ==
    IF i > Len(calls) THEN acc
    ELSE CollectCalls(calls, i + 1, defined,
             IF calls[i].id \in Range(acc) \/ calls[i].id \in Range(defined)
             THEN acc ELSE Append(acc, calls[i].id))

\* ASTComponentExtractor._analyze_function_body
analyze_function_body(f, c) ==
    [c EXCEPT !.if_count = f.if_count,
              !.for_count = f.for_count,
              !.while_count = f.while_count,
              !.try_count = f.try_count,
              !.except_count = f.except_count,
              !.error_handling = (f.try_count > 0 \/ f.except_count > 0),
              !.function_calls =
                  List(CollectCalls(f.calls, 1, c.functions_defined, << >>))]

\* ASTComponentExtractor._extract_from_ast
extract_from_ast(text, c) ==
    LET tops == SelectSeq(text.funcs, LAMBDA f : f.top)
        withFunc ==
            IF tops = << >> THEN c
            ELSE LET f == tops[1]
                 IN  analyze_function_body(f,
                         [c EXCEPT !.function_name = f.name,
                                   !.functions_defined = << f.name >>,
                                   !.parameters = f.params,
                                   !.return_type = f.returns,
                                   !.has_docstring = f.docstring])
    IN  [withFunc EXCEPT !.classes_defined = text.classes,
                         !.imports = text.imports,
                         !.from_imports = text.from_imports]

\* ASTComponentExtractor._fallback_extraction
fallback_extraction(text) ==
    LET rx == text.rx
        c == [DefaultComponents(text) EXCEPT
                 !.function_name = rx.function_name,
                 !.functions_defined =
                     IF rx.def_found THEN << rx.function_name >> ELSE << >>,
                 !.parameters = rx.parameters,
                 !.has_docstring = text.quoted_doc,
                 !.imports = rx.imports,
                 !.from_imports = rx.from_imports,
                 !.if_count = rx.if_count,
                 !.else_count = rx.else_count,
                 !.for_count = rx.for_count,
                 !.while_count = rx.while_count,
                 !.try_count = rx.try_count,
                 !.except_count = rx.except_count,
                 !.error_handling = (rx.try_count > 0 /\ rx.except_count > 0),
                 !.function_calls =
                     List(SelectSeq(rx.all_calls,
                         LAMBDA call : call # rx.function_name
                                       /\ call \notin {<<"i","f">>, <<"f","o","r">>,
                                                       <<"w","h","i","l","e">>,
                                                       <<"w","i","t","h">>})),
                 !.classes_defined = rx.classes]
    IN  compute_complexity(c)

\* ASTComponentExtractor.extract_components
extract_components(text) ==
    IF text.syntax_ok
    THEN compute_complexity(extract_from_ast(text, DefaultComponents(text)))
    ELSE fallback_extraction(text)

(***************************************************************************)
(* The orchestrator's constants.                                           *)
(***************************************************************************)
\* EnhancedCombinedReranker.base_weights, in tenths.
BaseStructureTenths == 12
BaseSignatureTenths == 18
BaseSemanticTenths == 16

base_weights ==
    [CodeStructureReranker |-> Flt(BaseStructureTenths, 10),
     SignatureReranker |-> Flt(BaseSignatureTenths, 10),
     SemanticReranker |-> Flt(BaseSemanticTenths, 10)]

RerankerNames == <<"CodeStructureReranker", "SignatureReranker", "SemanticReranker">>

\* A dict argument left at its default None.
NoneDict == [none |-> TRUE]
IsNone(d) == "none" \in DOMAIN d

(***************************************************************************)
(* RAW -> EXTRACTED: EnhancedCombinedReranker._preprocess_contexts         *)
(***************************************************************************)
\* The branch of the name-match chain taken for a context function name and
\* an intent with a function name: "exact", "substring", "potential", "none".
\* The rules with the substring test ahead of the equality test.
NameMatchRuleSubstringFirst(ctx_func_name, query_intent) ==
    LET query_func_name == Lower(query_intent.function_name)
        potential == Get(query_intent, "potential_names", << >>)
    IN  IF IsSubstr(query_func_name, ctx_func_name)
           \/ IsSubstr(ctx_func_name, query_func_name) THEN "substring"
        ELSE IF ctx_func_name = query_func_name THEN "exact"
        ELSE IF potential # << >>
                /\ \E i \in 1..Len(potential) :
                      \/ IsSubstr(Lower(potential[i]), ctx_func_name)
                      \/ IsSubstr(ctx_func_name, Lower(potential[i]))
             THEN "potential"
        ELSE "none"

NameMatchRule(ctx_func_name, query_intent) ==
    LET query_func_name == Lower(query_intent.function_name)
        potential == Get(query_intent, "potential_names", << >>)
    IN  IF ctx_func_name = query_func_name THEN "exact"
        ELSE IF IsSubstr(query_func_name, ctx_func_name)
                \/ IsSubstr(ctx_func_name, query_func_name) THEN "substring"
        ELSE IF potential # << >>
                /\ \E i \in 1..Len(potential) :
                      \/ IsSubstr(Lower(potential[i]), ctx_func_name)
                      \/ IsSubstr(ctx_func_name, Lower(potential[i]))
             THEN "potential"
        ELSE "none"

NameMatchBoost(rule) ==
    CASE rule = "exact" -> Flt(30, 100)
      [] rule = "substring" -> Flt(15, 100)
      [] rule = "potential" -> Flt(10, 100)
      [] OTHER -> Zero

\* `ctx['final_score'] += x`: raises TypeError on a str final_score.
AddToFinal(c, x) ==
    IF IsStr(c.final_score) THEN Raise(c)
    ELSE Done(Set(c, "final_score", Add(c.final_score, x)))

\* The text of ctx.get('text', '').
EmptyText ==
    Norm([nlines |-> 1, imports |-> << >>, from_imports |-> << >>, funcs |-> << >>,
          classes |-> << >>, quoted_doc |-> FALSE, syntax_ok |-> TRUE,
          contains |-> {}, returns_word |-> FALSE, rx_calls |-> << >>,
          doc_terms |-> {}, doc_params |-> {}])

\* The body of the loop of _preprocess_contexts for one context.
\* Lines 117-118.
WithComponents(ctx) ==
    IF Has(ctx, "components") THEN ctx
    ELSE Set(ctx, "components", extract_components(Get(ctx, "text", EmptyText)))

\* Lines 121-123.
WithInitialScores(ctx) ==
    Set(Set(ctx, "score", Get(ctx, "score", Zero)), "final_score",
        Get(ctx, "score", Zero))

\* Lines 131-143.
ApplyNameMatch(ctx, rule) ==
    IF rule = "none" THEN Done(Set(ctx, "name_match_boost", Zero))
    ELSE AddToFinal(Set(ctx, "name_match_boost", NameMatchBoost(rule)),
                    NameMatchBoost(rule))

\* Lines 126-143.
NameMatch(ctx, query_intent) ==
    IF Get(query_intent, "function_name", << >>) # << >>
    THEN ApplyNameMatch(ctx,
             NameMatchRule(Lower(Get(ctx.components, "function_name", << >>)),
                           query_intent))
    ELSE Done(ctx)

\* The body of the loop of _preprocess_contexts for one context.
PreprocessContext(ctx, query_intent) ==
    NameMatch(WithInitialScores(WithComponents(ctx)), query_intent)

preprocess_contexts(contexts, query_intent) ==
    ForEach(contexts, LAMBDA c : PreprocessContext(c, query_intent))

(***************************************************************************)
(* EXTRACTED -> WEIGHTED: EnhancedCombinedReranker._adjust_weights_for_query*)
(***************************************************************************)
\* The adjustments with +0.2 in place of +0.3 for the Structure scorer on an
\* algorithms query.
AdjustmentsAlgorithmsTwoTenths(query, query_intent) ==
    LET domain == Get(query_intent, "domain", "general")
        complexity == Get(query_intent, "complexity", "medium")
        dom == CASE domain = "file_io" -> <<0, 2, 1>>
                 [] domain \in {"string_processing", "data_structures"} -> <<2, 0, 0>>
                 [] domain = "error_handling" -> <<1, 1, 0>>
                 [] domain = "algorithms" -> <<2, 0, 1>>
                 [] OTHER -> <<0, 0, 0>>
        cpx == CASE complexity = "high" -> <<2, 0, 1>>
                 [] complexity = "low" -> <<0, 2, 0>>
                 [] OTHER -> <<0, 0, 0>>
        len == IF query.words > 50 THEN <<0, 0, 2>>
               ELSE IF query.words < 20 THEN <<0, 1, 0>>
               ELSE <<0, 0, 0>>
    IN  [CodeStructureReranker |-> Flt(dom[1] + cpx[1] + len[1], 10),
         SignatureReranker |-> Flt(dom[2] + cpx[2] + len[2], 10),
         SemanticReranker |-> Flt(dom[3] + cpx[3] + len[3], 10)]

\* The adjustments dict before it is applied, in tenths.
Adjustments(query, query_intent) ==
    LET domain == Get(query_intent, "domain", "general")
        complexity == Get(query_intent, "complexity", "medium")
        dom == CASE domain = "file_io" -> <<0, 2, 1>>
                 [] domain \in {"string_processing", "data_structures"} -> <<2, 0, 0>>
                 [] domain = "error_handling" -> <<1, 1, 0>>
                 [] domain = "algorithms" -> <<3, 0, 1>>
                 [] OTHER -> <<0, 0, 0>>
        cpx == CASE complexity = "high" -> <<2, 0, 1>>
                 [] complexity = "low" -> <<0, 2, 0>>
                 [] OTHER -> <<0, 0, 0>>
        len == IF query.words > 50 THEN <<0, 0, 2>>
               ELSE IF query.words < 20 THEN <<0, 1, 0>>
               ELSE <<0, 0, 0>>
    IN  [CodeStructureReranker |-> Flt(dom[1] + cpx[1] + len[1], 10),
         SignatureReranker |-> Flt(dom[2] + cpx[2] + len[2], 10),
         SemanticReranker |-> Flt(dom[3] + cpx[3] + len[3], 10)]

\* `reranker.weight += adjustment`.
accumulate_weights_for_query(w, query, query_intent) ==
    [name \in DOMAIN w |-> Add(w[name], Adjustments(query, query_intent)[name])]

\* The weights of the rerankers after `reranker.weight = base + adjustment`.
adjust_weights_for_query(w, query, query_intent) ==
    [name \in DOMAIN w |->
        Add(base_weights[name], Adjustments(query, query_intent)[name])]

(***************************************************************************)
(* The Structure scorer: CodeStructureReranker                             *)
(***************************************************************************)
Value(v) == [v |-> v, raised |-> FALSE]
Raised == [v |-> Zero, raised |-> TRUE]

control_flow_features ==
    <<"if_count", "else_count", "for_count", "while_count", "try_count",
      "except_count", "function_calls">>

\* components.get(feature, 0) as an int; a list has no int value.
FeatureInt(components, feature) ==
    IF ~Has(components, feature) THEN 0
    ELSE IF feature = "function_calls" THEN components[feature].n
    ELSE components[feature]

FeatureIsList(components, feature) ==
    /\ feature = "function_calls"
    /\ Has(components, feature)
    /\ IsList(components[feature])

Max2(a, b) == IF a >= b THEN a ELSE b

\* 1 - |a - b| / max(a, b), and 1.0 when both are zero.
CountSimilarity(a, b) ==
    IF Max2(a, b) > 0 THEN Sub(One, Flt(Abs(a - b), Max2(a, b))) ELSE One

\* set(components.get('imports', [])), without the from-imports.
ImportsOnly(components) == Range(Get(components, "imports", << >>))

\* set(components.get('imports', []) + components.get('from_imports', []))
ImportSet(components) ==
    Range(Get(components, "imports", << >>))
        \cup Range(Get(components, "from_imports", << >>))

\* CodeStructureReranker.compute_structure_similarity: the value, or raised
\* (max() or > on a list and an int is a TypeError; a zero line count on both
\* sides divides by zero).
compute_structure_similarity(ctx_components, answer_components) ==
    LET feats == control_flow_features
        listed == \E i \in 1..Len(feats) :
                     \/ FeatureIsList(ctx_components, feats[i])
                     \/ FeatureIsList(answer_components, feats[i])
        simOf(feature) == CountSimilarity(FeatureInt(ctx_components, feature),
                                          FeatureInt(answer_components, feature))
        RECURSIVE sumFrom(_)
        sumFrom(i) == IF i > Len(feats) THEN Zero
                      ELSE Add(Mul(Flt(5, 10), simOf(feats[i])), sumFrom(i + 1))
        flowScore == sumFrom(1)
        flowWeight == Mul(Flt(5, 10), Num(Len(feats)))
        ctx_imports == ImportSet(ctx_components)
        answer_imports == ImportSet(answer_components)
        withImports == answer_imports # {}
        importScore ==
            IF withImports
            THEN Mul(Flt(15, 10),
                     Flt(Cardinality(ctx_imports \cap answer_imports),
                         Cardinality(answer_imports)))
            ELSE Zero
        importWeight == IF withImports THEN Flt(15, 10) ELSE Zero
        withLines == Has(ctx_components, "line_count")
                        /\ Has(answer_components, "line_count")
        max_lines == IF withLines
                     THEN Max2(ctx_components.line_count, answer_components.line_count)
                     ELSE 1
        lengthScore ==
            IF withLines
            THEN Mul(Flt(3, 10),
                     Sub(One, Flt(Abs(ctx_components.line_count
                                       - answer_components.line_count), max_lines)))
            ELSE Zero
        lengthWeight == IF withLines THEN Flt(3, 10) ELSE Zero
        total_weight == Add(Add(flowWeight, importWeight), lengthWeight)
    IN  IF listed \/ max_lines = 0 THEN Raised
        ELSE Value(Div(Add(Add(flowScore, importScore), lengthScore), total_weight))

\* The body of the loop of CodeStructureReranker.rerank for one context.
\* ctx[score_key] = s; ctx['final_score'] = ctx['score'] + weight * s.
ResetFinal(ctx, score_key, weight, s) ==
    IF ~Has(ctx, "score") \/ IsStr(ctx.score) THEN Raise(Set(ctx, score_key, s))
    ELSE Done(Set(Set(ctx, score_key, s), "final_score",
                  Add(ctx.score, Mul(weight, s))))

StructureScored(ctx, weight, s) ==
    IF s.raised THEN Raise(ctx) ELSE ResetFinal(ctx, "structure_score", weight, s.v)

StructureContext(ctx, weight, answer_components) ==
    IF ~Has(ctx, "components") THEN Raise(ctx)
    ELSE StructureScored(ctx, weight,
                         compute_structure_similarity(ctx.components,
                                                      answer_components))

\* CodeStructureReranker.rerank: the sorted list, or on an exception the
\* list it was given with the mutations made before the exception.
structure_rerank(contexts, weight, answer_components) ==
    ScorerReturn(ForEach(contexts,
                         LAMBDA c : StructureContext(c, weight, answer_components)))

(***************************************************************************)
(* The Signature scorer: SignatureReranker                                 *)
(***************************************************************************)
\* A character of [a-z].
IsLowerLetter(c) == c \in Range(LowerLetters)

\* set(re.findall(r'[a-z]+', s)): the maximal runs of lower-case letters.
RECURSIVE TokensFrom(_, _, _, _)
TokensFrom(s, i, run, acc) ==
    IF i > Len(s) THEN (IF run = << >> THEN acc ELSE acc \cup {run})
    ELSE IF IsLowerLetter(s[i]) THEN TokensFrom(s, i + 1, Append(run, s[i]), acc)
    ELSE TokensFrom(s, i + 1, << >>, IF run = << >> THEN acc ELSE acc \cup {run})

Tokens(s) == TokensFrom(s, 1, << >>, {})

\* len(query_tokens & ctx_tokens) / len(query_tokens), 0 when either is empty.
TokenSimilarity(query_name, ctx_name) ==
    LET query_tokens == Tokens(Lower(query_name))
        ctx_tokens == Tokens(Lower(ctx_name))
    IN  IF query_tokens # {} /\ ctx_tokens # {}
        THEN Flt(Cardinality(query_tokens \cap ctx_tokens), Cardinality(query_tokens))
        ELSE Zero

\* The function-name part of the signature score: <<score, weight>>.
SignatureNamePart(ctx_function, query_intent) ==
    LET function_weight == Num(2)
        name == Get(query_intent, "function_name", << >>)
        potential == Get(query_intent, "potential_names", << >>)
    IN  IF name # << >>
        THEN IF Lower(ctx_function) = Lower(name)
             THEN <<function_weight, function_weight>>
             ELSE IF IsSubstr(Lower(name), Lower(ctx_function))
             THEN <<Mul(function_weight, Flt(8, 10)), function_weight>>
             ELSE <<Mul(Mul(function_weight, TokenSimilarity(name, ctx_function)),
                        Flt(5, 10)), function_weight>>
        ELSE IF potential # << >>
        THEN IF \E i \in 1..Len(potential) : Lower(potential[i]) = Lower(ctx_function)
             THEN <<function_weight, function_weight>>
             ELSE IF \E i \in 1..Len(potential) :
                        IsSubstr(Lower(potential[i]), Lower(ctx_function))
             THEN <<Mul(function_weight, Flt(7, 10)), function_weight>>
             ELSE <<Mul(Mul(function_weight,
                            MaxOf({Zero} \cup {TokenSimilarity(potential[i], ctx_function) :
                                                 i \in 1..Len(potential)})),
                        Flt(5, 10)), function_weight>>
        ELSE <<Zero, Zero>>

\* The parameter part: <<score, weight>>.
SignatureParamPart(ctx_components, query_intent) ==
    LET param_weight == Num(2)
        query_params == Get(query_intent, "parameters", << >>)
        ctx_params == Get(ctx_components, "parameters", << >>)
        param_similarity ==
            Flt(Cardinality(Range(ctx_params) \cap Range(query_params)),
                Cardinality(Range(query_params)))
        position_matches ==
            Cardinality({i \in 1..Len(query_params) :
                            i <= Len(ctx_params) /\ query_params[i] = ctx_params[i]})
        position_similarity == Flt(position_matches, Len(query_params))
        combined == Add(Mul(Flt(7, 10), param_similarity),
                        Mul(Flt(3, 10), position_similarity))
    IN  IF query_params = << >> THEN <<Zero, Zero>>
        ELSE IF ctx_params = << >> THEN <<Zero, param_weight>>
        ELSE IF Range(ctx_params) = Range(query_params) THEN <<param_weight, param_weight>>
        ELSE <<Mul(param_weight, combined), param_weight>>

\* score / total_weight over the <<score, weight>> parts, 0 when no part has
\* a weight.
Ratio(score, total_weight) ==
    IF Lt(Zero, total_weight) THEN Div(score, total_weight) ELSE Zero

RECURSIVE SumParts(_, _, _)
SumParts(parts, k, i) ==
    IF i > Len(parts) THEN Zero ELSE Add(parts[i][k], SumParts(parts, k, i + 1))

WeightedMean(parts) == Ratio(SumParts(parts, 1, 1), SumParts(parts, 2, 1))

\* SignatureReranker.compute_signature_similarity
compute_signature_similarity(ctx_components, query_intent) ==
    LET namePart == SignatureNamePart(Get(ctx_components, "function_name", << >>),
                                      query_intent)
        paramPart == SignatureParamPart(ctx_components, query_intent)
        ctx_text == Get(ctx_components, "text", EmptyText)
        docPart == IF Get(query_intent, "has_docstring", FALSE)
                   THEN <<IF ctx_text.quoted_doc THEN One ELSE Zero, One>>
                   ELSE <<Zero, Zero>>
        returnPart == IF Get(query_intent, "has_return", FALSE)
                      THEN <<IF ctx_text.returns_word THEN One ELSE Zero, One>>
                      ELSE <<Zero, Zero>>
        has_error_handling == Get(ctx_components, "try_count", 0) > 0
                                 /\ Get(ctx_components, "except_count", 0) > 0
        errorPart == IF Get(query_intent, "error_handling", FALSE)
                     THEN <<IF has_error_handling THEN Flt(12, 10) ELSE Zero, Flt(12, 10)>>
                     ELSE <<Zero, Zero>>
    IN  WeightedMean(<<namePart, paramPart, docPart, returnPart, errorPart>>)

\* SignatureReranker._extract_components
signature_extract_components(text) ==
    [try_count |-> text.rx.try_count, except_count |-> text.rx.except_count,
     parameters |-> text.rx.parameters, text |-> text,
     function_name |-> text.rx.function_name, return_type |-> << >>]

\* The body of the loop of SignatureReranker.rerank for one context.
\* ctx[score_key] = s, then `ctx['final_score'] += weight * s` when the
\* context has a final_score and the reset from score otherwise.
Accumulate(ctx, score_key, weight, s) ==
    IF Has(ctx, "final_score")
    THEN AddToFinal(Set(ctx, score_key, s), Mul(weight, s))
    ELSE ResetFinal(ctx, score_key, weight, s)

SignatureScored(ctx, weight, query_intent) ==
    Accumulate(ctx, "signature_score", weight,
               compute_signature_similarity(ctx.components, query_intent))

SignatureContext(ctx, weight, query_intent) ==
    SignatureScored(IF Has(ctx, "components") THEN ctx
                    ELSE Set(ctx, "components",
                             signature_extract_components(Get(ctx, "text", EmptyText))),
                    weight, query_intent)

\* SignatureReranker.rerank
signature_rerank(contexts, weight, query_intent) ==
    ScorerReturn(ForEach(contexts,
                         LAMBDA c : SignatureContext(c, weight, query_intent)))

(***************************************************************************)
(* The Semantic scorer: SemanticReranker.  A query is given by what the    *)
(* regular expressions find in it:                                         *)
(*   words        len(query.split())                                       *)
(*   contains     the lower-case strings that occur in query.lower()       *)
(*   key_phrases  _extract_key_phrases(query), lower-cased                 *)
(*   domain_terms _extract_domain_terms(query)                             *)
(*   terms        the words of three letters or more of query.lower()      *)
(*   params       re.findall(r':param\s+(\w+):', query)                    *)
(*   intent       what QueryIntentExtractor.extract_intent returns for it  *)
(*   candidates   the names _extract_potential_names collects, as found    *)
(***************************************************************************)
\* The fraction of the items of a list that satisfy P.
Fraction(items, P(_)) ==
    Flt(Cardinality({i \in 1..Len(items) : P(items[i])}), Len(items))

\* SemanticReranker._assess_docstring_match
assess_docstring_match(ctx_text, query) ==
    IF ~ctx_text.quoted_doc THEN Zero
    ELSE IF query.terms = {} THEN Zero
    ELSE LET overlap == Flt(Cardinality(query.terms \cap ctx_text.doc_terms),
                            Cardinality(query.terms))
             param_coverage ==
                 IF query.params # << >>
                 THEN Flt(Cardinality(Range(query.params) \cap ctx_text.doc_params),
                          Len(query.params))
                 ELSE Zero
         IN  Add(Mul(Flt(4, 10), overlap), Mul(Flt(6, 10), param_coverage))

\* Lines 56-59: the docstring match counts when it is positive.
DocstringPart(docstring_match) ==
    IF Lt(Zero, docstring_match) THEN <<docstring_match, One>> ELSE <<Zero, Zero>>

\* SemanticReranker.compute_semantic_similarity
compute_semantic_similarity(query, ctx_text, query_intent) ==
    LET inText(term) == term \in ctx_text.contains
        phrasePart == IF query.key_phrases # << >>
                      THEN <<Mul(Flt(15, 10), Fraction(query.key_phrases, inText)),
                             Flt(15, 10)>>
                      ELSE <<Zero, Zero>>
        domainPart == IF query.domain_terms # << >>
                      THEN <<Mul(Flt(12, 10), Fraction(query.domain_terms, inText)),
                             Flt(12, 10)>>
                      ELSE <<Zero, Zero>>
        algo_steps == Get(query_intent, "algorithm_description", << >>)
        stepMatches(step) == \E term \in step : inText(term)
        algoPart == IF algo_steps # << >>
                    THEN <<Mul(Flt(18, 10), Fraction(algo_steps, stepMatches)),
                           Flt(18, 10)>>
                    ELSE <<Zero, Zero>>
        key_funcs == Get(query_intent, "key_functions", << >>)
        called(func) == func \in Range(ctx_text.rx_calls)
        funcPart == IF key_funcs # << >>
                    THEN <<Mul(Flt(14, 10), Fraction(key_funcs, called)), Flt(14, 10)>>
                    ELSE <<Zero, Zero>>
        docPart == DocstringPart(assess_docstring_match(ctx_text, query))
    IN  WeightedMean(<<phrasePart, domainPart, algoPart, funcPart, docPart>>)

\* The body of the loop of SemanticReranker.rerank for one context.
SemanticScored(ctx, weight, s) ==
    IF Has(ctx, "final_score")
    THEN AddToFinal(Set(ctx, "semantic_score", s), Mul(weight, s))
    ELSE IF IsStr(Get(ctx, "score", Zero)) THEN Raise(Set(ctx, "semantic_score", s))
    ELSE Done(Set(Set(ctx, "semantic_score", s), "final_score",
                  Add(Get(ctx, "score", Zero), Mul(weight, s))))

SemanticContext(ctx, weight, query, query_intent) ==
    SemanticScored(ctx, weight,
                   compute_semantic_similarity(query, Get(ctx, "text", EmptyText),
                                               query_intent))

\* SemanticReranker.rerank
semantic_rerank(contexts, weight, query, query_intent) ==
    ScorerReturn(ForEach(contexts,
                         LAMBDA c : SemanticContext(c, weight, query, query_intent)))

(***************************************************************************)
(* FunctionRelationshipAnalyzer                                            *)
(***************************************************************************)
\* The definitions the analyzer finds in one text, in the order it meets
\* them: the FunctionDef nodes of the tree, or on a SyntaxError the matches
\* of the `def name(...)` regular expression.
TextDefs(text) == IF text.syntax_ok THEN text.funcs ELSE text.rx.defs

TextDefNames(text) == {TextDefs(text)[i].name : i \in 1..Len(TextDefs(text))}

\* dict[name] after `dict[d.name] = d` for each d of defs in order.
LastDef(defs, name) ==
    defs[CHOOSE i \in 1..Len(defs) :
            /\ defs[i].name = name
            /\ \A j \in (i + 1)..Len(defs) : defs[j].name # name]

\* The callees one text adds under `func_name` in the call graph.
TextEdges(text, func_name) ==
    IF func_name \notin TextDefNames(text) THEN {}
    ELSE IF text.syntax_ok
    THEN LET calls == LastDef(text.funcs, func_name).calls
         IN  {calls[i].id : i \in {j \in 1..Len(calls) :
                                      /\ ~calls[j].attr
                                      /\ calls[j].id \in TextDefNames(text)}}
    ELSE TextDefNames(text) \ {func_name}

ContextText(ctx) == Get(ctx, "text", EmptyText)

AllDefNames(contexts) ==
    UNION {TextDefNames(ContextText(contexts[i])) : i \in 1..Len(contexts)}

\* A call graph whose edges lead to every function the batch defines,
\* whichever context defines it.
build_call_graph_over_batch(contexts) ==
    [name \in AllDefNames(contexts) |->
        UNION {LET text == ContextText(contexts[i])
               IN  IF name \notin TextDefNames(text) THEN {}
                   ELSE IF text.syntax_ok
                   THEN {LastDef(text.funcs, name).calls[c].id :
                            c \in {j \in 1..Len(LastDef(text.funcs, name).calls) :
                                      /\ ~LastDef(text.funcs, name).calls[j].attr
                                      /\ LastDef(text.funcs, name).calls[j].id
                                            \in AllDefNames(contexts)}}
                   ELSE AllDefNames(contexts) \ {name} :
               i \in 1..Len(contexts)}]

\* FunctionRelationshipAnalyzer._build_call_graph
build_call_graph(contexts) ==
    [name \in AllDefNames(contexts) |->
        UNION {TextEdges(ContextText(contexts[i]), name) : i \in 1..Len(contexts)}]

\* The line_count the analyzer records for a definition.
SignatureLineCount(text, def, has_unparse) ==
    IF text.syntax_ok THEN (IF has_unparse THEN def.unparsed ELSE 0)
    ELSE def.rest_lines

\* FunctionRelationshipAnalyzer._collect_function_signatures: the entry of
\* each name is written by the last context, and in it the last definition,
\* that defines the name.
collect_function_signatures(contexts, has_unparse) ==
    [name \in AllDefNames(contexts) |->
        LET k == CHOOSE i \in 1..Len(contexts) :
                    /\ name \in TextDefNames(ContextText(contexts[i]))
                    /\ \A j \in (i + 1)..Len(contexts) :
                          name \notin TextDefNames(ContextText(contexts[j]))
            text == ContextText(contexts[k])
            def == LastDef(TextDefs(text), name)
        IN  [parameters |-> def.params,
             line_count |-> SignatureLineCount(text, def, has_unparse),
             has_docstring |-> def.docstring]]

\* The rules with `<` where the code has `<=`.
RoleOfStrictLimits(is_called, calls_others, has_docstring, line_count) ==
    IF is_called /\ ~calls_others /\ line_count < 10 THEN "helper"
    ELSE IF ~is_called /\ calls_others /\ has_docstring THEN "main"
    ELSE IF ~is_called /\ ~calls_others /\ line_count < 5 THEN "utility"
    ELSE "general"

\* The classification rules of _determine_function_roles.
RoleOf(is_called, calls_others, has_docstring, line_count) ==
    IF is_called /\ ~calls_others /\ line_count <= 10 THEN "helper"
    ELSE IF ~is_called /\ calls_others /\ has_docstring THEN "main"
    ELSE IF ~is_called /\ ~calls_others /\ line_count <= 5 THEN "utility"
    ELSE "general"

\* FunctionRelationshipAnalyzer._determine_function_roles
determine_function_roles(call_graph, function_signatures) ==
    LET incoming_calls(callee) ==
            Cardinality({caller \in DOMAIN call_graph : callee \in call_graph[caller]})
        outgoing_calls(func) ==
            IF func \in DOMAIN call_graph THEN Cardinality(call_graph[func]) ELSE 0
    IN  [func_name \in DOMAIN function_signatures |->
            RoleOf(incoming_calls(func_name) > 0,
                   outgoing_calls(func_name) > 0,
                   function_signatures[func_name].has_docstring,
                   function_signatures[func_name].line_count)]

\* FunctionRelationshipAnalyzer.__init__: the roles of the batch.
function_roles(contexts, has_unparse) ==
    determine_function_roles(build_call_graph(contexts),
                             collect_function_signatures(contexts, has_unparse))

\* function_roles.get(function_name, 'general')
RoleOfName(roles, function_name) ==
    IF function_name \in DOMAIN roles THEN roles[function_name] ELSE "general"

\* An adjustment that adds 0.05 for a helper.
RoleAdjustmentHelperAdded(role) ==
    CASE role = "main" -> Flt(10, 100)
      [] role = "helper" -> Flt(5, 100)
      [] OTHER -> Zero

\* The adjustment of boost_main_functions for a role.
RoleAdjustment(role) ==
    CASE role = "main" -> Flt(10, 100)
      [] role = "helper" -> Flt(-5, 100)
      [] OTHER -> Zero

\* The body of the loop of boost_main_functions for one context.
BoostContext(ctx, roles) ==
    LET function_name == Get(Get(ctx, "components", << >>), "function_name", << >>)
        role == RoleOfName(roles, function_name)
        old == Get(ctx, "final_score", Zero)
    IN  IF function_name # << >> /\ role \in {"main", "helper"}
        THEN IF IsStr(old) THEN Raise(ctx)
             ELSE Done(Set(ctx, "final_score", Add(old, RoleAdjustment(role))))
        ELSE Done(ctx)

\* A role adjustment that returns only the contexts it adjusted.
boost_only_adjusted(contexts, roles) ==
    [ctxs |-> SelectSeq(contexts,
                        LAMBDA c : RoleOfName(roles,
                                              Get(Get(c, "components", << >>),
                                                  "function_name", << >>))
                                   \in {"main", "helper"}),
     raised |-> FALSE]

\* FunctionRelationshipAnalyzer.boost_main_functions
boost_main_functions(contexts, roles) ==
    ForEach(contexts, LAMBDA c : BoostContext(c, roles))

(***************************************************************************)
(* ROLE-ADJUSTED -> NORMALIZED: EnhancedCombinedReranker._normalize_scores *)
(***************************************************************************)
\* A normalization that divides by the greatest score only.
normalize_by_max(contexts) ==
    [ctxs |-> [i \in 1..Len(contexts) |->
                  Set(contexts[i], "final_score",
                      Div(contexts[i].final_score,
                          MaxOf({Flt(1, 1000)}
                                \cup {contexts[j].final_score : j \in 1..Len(contexts)})))],
     raised |-> FALSE]

\* max() and min() of a list of floats; of a list of strs they compare the
\* texts; of a list that mixes the two they raise TypeError.
normalize_scores(contexts) ==
    LET idx == 1..Len(contexts)
        all_scores == {contexts[i].final_score : i \in idx}
        strs == {x \in all_scores : IsStr(x)}
    IN  IF contexts = << >> THEN [ctxs |-> contexts, raised |-> FALSE]
        ELSE IF strs # {} /\ strs # all_scores THEN [ctxs |-> contexts, raised |-> TRUE]
        ELSE IF strs # {}
        THEN [ctxs |-> contexts, raised |-> Cardinality(all_scores) > 1]
        ELSE LET max_score == MaxOf(all_scores)
                 min_score == MinOf(all_scores)
                 score_range == Sub(max_score, min_score)
                 normalized(c) == Div(Sub(c.final_score, min_score), score_range)
             IN  IF Lt(min_score, max_score)
                 THEN [ctxs |-> [i \in idx |->
                                   Set(Set(contexts[i], "normalized_score",
                                           normalized(contexts[i])),
                                       "final_score", normalized(contexts[i]))],
                       raised |-> FALSE]
                 ELSE [ctxs |-> contexts, raised |-> FALSE]

(***************************************************************************)
(* NORMALIZED -> HEURISTIC-ADJUSTED                                        *)
(***************************************************************************)
\* The boost _apply_code_quality_heuristics computes for one context.
QualityBoost(components, query_intent) ==
    LET docBoost ==
            IF Get(query_intent, "has_docstring", FALSE)
               /\ Get(components, "has_docstring", FALSE) THEN Flt(8, 100) ELSE Zero
        errorBoost ==
            IF Get(query_intent, "error_handling", FALSE)
               /\ Get(components, "error_handling", FALSE) THEN Flt(10, 100) ELSE Zero
        complexity == Get(query_intent, "complexity", "medium")
        line_count == Get(components, "line_count", 0)
        lengthBoost ==
            IF \/ (complexity = "low" /\ 3 <= line_count /\ line_count <= 15)
               \/ (complexity = "medium" /\ 10 <= line_count /\ line_count <= 30)
               \/ (complexity = "high" /\ line_count >= 20)
            THEN Flt(5, 100) ELSE Zero
        expected_param_count == Len(Get(query_intent, "parameters", << >>))
        actual_param_count == Len(Get(components, "parameters", << >>))
        paramBoost ==
            IF expected_param_count = 0 THEN Zero
            ELSE IF expected_param_count = actual_param_count THEN Flt(8, 100)
            ELSE IF Abs(expected_param_count - actual_param_count) <= 1 THEN Flt(4, 100)
            ELSE Zero
        returnBoost ==
            IF Get(Get(query_intent, "return_value", << >>), "has_return", FALSE)
               /\ Get(components, "return_type", None) # None THEN Flt(5, 100) ELSE Zero
    IN  Add(Add(Add(Add(docBoost, errorBoost), lengthBoost), paramBoost), returnBoost)

\* The body of the loop of _apply_code_quality_heuristics for one context.
Boosted(ctx, key, boost) == AddToFinal(Set(ctx, key, boost), boost)

QualityContext(ctx, query_intent) ==
    Boosted(ctx, "quality_boost",
            QualityBoost(Get(ctx, "components", << >>), query_intent))

\* EnhancedCombinedReranker._apply_code_quality_heuristics
apply_code_quality_heuristics(contexts, query_intent) ==
    ForEach(contexts, LAMBDA c : QualityContext(c, query_intent))

file_ops ==
    <<<<"o", "p", "e", "n">>,
      <<"r", "e", "a", "d">>,
      <<"w", "r", "i", "t", "e">>,
      <<"c", "l", "o", "s", "e">>,
      <<"m", "a", "k", "e", "d", "i", "r", "s">>,
      <<"e", "x", "i", "s", "t", "s">>,
      <<"i", "s", "d", "i", "r">>,
      <<"i", "s", "f", "i", "l", "e">>>>

string_ops ==
    <<<<"s", "p", "l", "i", "t">>,
      <<"j", "o", "i", "n">>,
      <<"s", "t", "r", "i", "p">>,
      <<"r", "e", "p", "l", "a", "c", "e">>,
      <<"f", "o", "r", "m", "a", "t">>,
      <<"l", "o", "w", "e", "r">>,
      <<"u", "p", "p", "e", "r">>,
      <<"f", "i", "n", "d">>,
      <<"i", "n", "d", "e", "x">>>>

helper_terms ==
    <<<<"_", "h", "e", "l", "p", "e", "r">>,
      <<"h", "e", "l", "p", "e", "r", "_">>,
      <<"u", "t", "i", "l">>,
      <<"i", "n", "t", "e", "r", "n", "a", "l">>,
      <<"i", "m", "p", "l">>>>

main_terms ==
    <<<<"m", "a", "i", "n">>,
      <<"p", "u", "b", "l", "i", "c">>,
      <<"a", "p", "i">>,
      <<"i", "n", "t", "e", "r", "f", "a", "c", "e">>>>

\* The body of the file-op and of the string-op loop for one context:
\* `op in function_calls` raises TypeError on an int.
OpCount(ops, function_calls) ==
    Cardinality({i \in 1..Len(ops) : ops[i] \in Range(function_calls.items)})

OpBoost(ctx, op_count, unit, key) ==
    IF op_count > 0
    THEN Boosted(ctx, key, Mul(unit, Num(IF op_count < 3 THEN op_count ELSE 3)))
    ELSE Done(ctx)

OpBoostCalls(ctx, ops, unit, key, function_calls) ==
    IF ~IsList(function_calls) THEN Raise(ctx)
    ELSE OpBoost(ctx, OpCount(ops, function_calls), unit, key)

OpBoostContext(ctx, ops, unit, key) ==
    OpBoostCalls(ctx, ops, unit, key,
                 Get(Get(ctx, "components", << >>), "function_calls", List(<< >>)))

\* The body of the helper/main loop for one context.
HelperMainContext(ctx, helper_query) ==
    LET name == Lower(Get(Get(ctx, "components", << >>), "function_name", << >>))
        is_helper == \E i \in 1..Len(helper_terms) : IsSubstr(helper_terms[i], name)
        is_main == \E i \in 1..Len(main_terms) : IsSubstr(main_terms[i], name)
    IN  IF is_helper /\ helper_query
        THEN AddToFinal(Set(ctx, "helper_boost", Flt(8, 100)), Flt(8, 100))
        ELSE IF is_main /\ ~helper_query
        THEN AddToFinal(Set(ctx, "main_boost", Flt(8, 100)), Flt(8, 100))
        ELSE Done(ctx)

\* A loop that runs only when `cond` holds and only if nothing raised before.
Then(r, cond, F(_)) ==
    IF r.raised \/ ~cond THEN r ELSE ForEach(r.ctxs, F)

\* EnhancedCombinedReranker._apply_query_specific_adjustments
apply_query_specific_adjustments(contexts, query, query_intent) ==
    LET file_query == query.contains \cap {"file", "directory", "open", "read", "write"} # {}
        string_query ==
            query.contains \cap {"string", "text", "parse", "format", "split", "join"} # {}
        helper_query == "helper" \in query.contains
    IN  Then(Then(Then([ctxs |-> contexts, raised |-> FALSE], file_query,
                       LAMBDA c : OpBoostContext(c, file_ops, Flt(5, 100),
                                                 "file_op_boost")),
                  string_query,
                  LAMBDA c : OpBoostContext(c, string_ops, Flt(4, 100),
                                            "string_op_boost")),
             Get(query_intent, "function_name", << >>) # << >>,
             LAMBDA c : HelperMainContext(c, helper_query))

(***************************************************************************)
(* The inputs of the model: identifiers, source texts, contexts, queries.  *)
(***************************************************************************)
n_read_file == <<"r", "e", "a", "d", "_", "f", "i", "l", "e">>
n_compute_sum == <<"c", "o", "m", "p", "u", "t", "e", "_", "s", "u", "m">>
n_process == <<"p", "r", "o", "c", "e", "s", "s">>
n_clean == <<"c", "l", "e", "a", "n">>
n_open == <<"o", "p", "e", "n">>
n_read == <<"r", "e", "a", "d">>
n_strip == <<"s", "t", "r", "i", "p">>
n_lower == <<"l", "o", "w", "e", "r">>
n_Read == <<"R", "e", "a", "d">>
n_Clean == <<"C", "l", "e", "a", "n">>
n_process_text == <<"p", "r", "o", "c", "e", "s", "s", "_", "t", "e", "x", "t">>

\* What the regular expressions of SignatureReranker._extract_components and
\* of the fallback paths find in a text that defines `defs`.
Rx(function_name, parameters, trys, excepts, defs) ==
    [if_count |-> 0, for_count |-> 0, while_count |-> 0, try_count |-> trys,
     except_count |-> excepts, parameters |-> parameters,
     function_name |-> function_name, imports |-> << >>,
     from_imports |-> << >>, else_count |-> 0, classes |-> << >>,
     def_found |-> function_name # << >>, all_calls |-> << >>, defs |-> defs]

\* def read_file(path): a four-line docstring with :param path: and :return:,
\* then try: with open(path) as f: return f.read() / except IOError: return None
TextReadFile ==
    Norm([nlines |-> 10, imports |-> << >>, from_imports |-> << >>,
          funcs |-> <<FuncDef(n_read_file, TRUE, <<"path">>, None, TRUE, 0, 0, 0, 1, 1,
                              <<NameCall(n_open), AttrCall(n_read)>>, 10)>>,
          classes |-> << >>, rx |-> Rx(n_read_file, <<"path">>, 1, 1, << >>),
          quoted_doc |-> TRUE, syntax_ok |-> TRUE,
          contains |-> {"file", "path", "read", "open", "return", "contents",
                        "file path", "param path", "def read"},
          returns_word |-> TRUE, rx_calls |-> <<"read_file", "open", "read">>,
          doc_terms |-> {"read", "file", "param", "path", "return", "contents"},
          doc_params |-> {"path"}])

\* def compute_sum(a, b): return a + b
TextComputeSum ==
    Norm([nlines |-> 2, imports |-> << >>, from_imports |-> << >>,
          funcs |-> <<FuncDef(n_compute_sum, TRUE, <<"a", "b">>, None, FALSE, 0, 0, 0, 0, 0,
                              << >>, 2)>>,
          classes |-> << >>, rx |-> Rx(n_compute_sum, <<"a", "b">>, 0, 0, << >>),
          quoted_doc |-> FALSE, syntax_ok |-> TRUE,
          contains |-> {"compute", "sum", "return", "def compute"},
          returns_word |-> TRUE, rx_calls |-> <<"compute_sum">>, doc_terms |-> {},
          doc_params |-> {}])

\* def process(text): """Process text.""" return clean(text).strip()
\* def clean(s): return s.lower()
TextProcess ==
    Norm([nlines |-> 6, imports |-> << >>, from_imports |-> << >>,
          funcs |-> <<FuncDef(n_process, TRUE, <<"text">>, None, TRUE, 0, 0, 0, 0, 0,
                              <<AttrCall(n_strip), NameCall(n_clean)>>, 3),
                      FuncDef(n_clean, TRUE, <<"s">>, None, FALSE, 0, 0, 0, 0, 0,
                              <<AttrCall(n_lower)>>, 2)>>,
          classes |-> << >>, rx |-> Rx(n_process, <<"text">>, 0, 0, << >>),
          quoted_doc |-> TRUE, syntax_ok |-> TRUE,
          contains |-> {"process", "text", "clean", "strip", "return", "process text"},
          returns_word |-> TRUE,
          rx_calls |-> <<"process", "clean", "strip", "clean", "lower">>,
          doc_terms |-> {"process", "text"}, doc_params |-> {}])

\* def clean(s): return s.strip()
\* def process(text): return clean(text)
TextHelperFirst ==
    Norm([nlines |-> 5, imports |-> << >>, from_imports |-> << >>,
          funcs |-> <<FuncDef(n_clean, TRUE, <<"s">>, None, FALSE, 0, 0, 0, 0, 0,
                              <<AttrCall(n_strip)>>, 2),
                      FuncDef(n_process, TRUE, <<"text">>, None, FALSE, 0, 0, 0, 0, 0,
                              <<NameCall(n_clean)>>, 2)>>,
          classes |-> << >>, rx |-> Rx(n_clean, <<"s">>, 0, 0, << >>),
          quoted_doc |-> FALSE, syntax_ok |-> TRUE,
          contains |-> {"process", "text", "clean", "strip", "return"},
          returns_word |-> TRUE,
          rx_calls |-> <<"clean", "strip", "process", "clean">>, doc_terms |-> {},
          doc_params |-> {}])

\* total = compute(1): a text that defines no function
TextNoFunction ==
    Norm([nlines |-> 1, imports |-> << >>, from_imports |-> << >>, funcs |-> << >>,
          classes |-> << >>, rx |-> Rx(<< >>, << >>, 0, 0, << >>),
          quoted_doc |-> FALSE, syntax_ok |-> TRUE,
          contains |-> {"total", "compute"}, returns_word |-> FALSE,
          rx_calls |-> <<"compute">>, doc_terms |-> {}, doc_params |-> {}])

\* def Read(path): return open(path).read()
TextRead ==
    Norm([nlines |-> 2, imports |-> << >>, from_imports |-> << >>,
          funcs |-> <<FuncDef(n_Read, TRUE, <<"path">>, None, FALSE, 0, 0, 0, 0, 0,
                              <<AttrCall(n_read), NameCall(n_open)>>, 2)>>,
          classes |-> << >>, rx |-> Rx(n_Read, <<"path">>, 0, 0, << >>),
          quoted_doc |-> FALSE, syntax_ok |-> TRUE,
          contains |-> {"read", "path", "open", "return", "def read"},
          returns_word |-> TRUE, rx_calls |-> <<"read", "open", "read">>,
          doc_terms |-> {}, doc_params |-> {}])

\* DataProcessor.extract_code_components(TextRead): 'function_calls' is the
\* number of matches of \w+\( and there is no 'text' key.
DataProcessorComponentsRead ==
    [if_count |-> 0, for_count |-> 0, while_count |-> 0, try_count |-> 0,
     except_count |-> 0, function_calls |-> IntVal(3),
     parameters |-> <<"path">>, line_count |-> 2, function_name |-> n_Read,
     return_type |-> "[]", imports |-> << >>, from_imports |-> << >>,
     else_count |-> 0]

\* The retrieved contexts a batch is drawn from.
Catalog ==
    <<[id |-> 1, text |-> TextReadFile, score |-> Flt(5, 10)],
      [id |-> 2, text |-> TextComputeSum, score |-> Flt(9, 10)],
      [id |-> 3, text |-> TextProcess, score |-> Flt(7, 10)],
      [id |-> 4, text |-> TextHelperFirst, score |-> Flt(7, 10)],
      [id |-> 5, text |-> TextNoFunction, score |-> Flt(6, 10)],
      [id |-> 6, text |-> TextRead, components |-> DataProcessorComponentsRead,
       score |-> Flt(4, 10)],
      [id |-> 7, text |-> TextReadFile, score |-> Str(8, 10)],
      [id |-> 8, text |-> TextProcess, score |-> Str(7, 10)]>>

\* The batches: the lists of at most MaxCtx distinct contexts of the catalog.
Batches ==
    Norm(UNION {{<<>>} \cup {[i \in 1..n |-> Catalog[f[i]]] :
                             f \in {g \in [1..n -> 1..Len(Catalog)] :
                                       \A a, b \in 1..n : a # b => g[a] # g[b]}} :
                n \in 1..MaxCtx})

Intent(function_name, parameters, has_return, has_docstring, error_handling, complexity, domain, key_functions, algorithm_description, potential_names) ==
    [parameters |-> parameters, function_name |-> function_name,
     has_docstring |-> has_docstring, complexity |-> complexity,
     error_handling |-> error_handling, domain |-> domain,
     key_functions |-> key_functions,
     algorithm_description |-> algorithm_description,
     potential_names |-> potential_names,
     return_value |-> [has_return |-> has_return]]

\* "def read_file(path): :param path: file path :return: contents"
QueryReadFile ==
    Norm([params |-> <<"path">>,
          contains |-> {"def", "read", "file", "path", "param", "return", "contents"},
          words |-> 9,
          terms |-> {"def", "read_file", "path", "param", "file", "return", "contents"},
          key_phrases |-> <<"def read", "param path", "file path", "file path ", "contents">>,
          domain_terms |-> <<"file", "path", "read">>,
          candidates |-> <<n_read_file>>,
          intent |-> Intent(n_read_file, <<"path">>, TRUE, TRUE, FALSE, "low", "file_io",
                            <<"read_file">>, << >>, <<n_read_file>>)])

\* A description of more than fifty words of an efficient recursive sorting
\* algorithm over a list, in two numbered steps; it mentions compute_sum in
\* passing and names no function with `def` or backticks.
QuerySortAlgorithm ==
    Norm([params |-> << >>,
          contains |-> {"algorithm", "sort", "list", "efficient", "recursive"},
          words |-> 60, terms |-> {"sort", "list", "return", "algorithm"},
          key_phrases |-> <<"sort the list", "return the list">>,
          domain_terms |-> << >>, candidates |-> <<n_compute_sum>>,
          intent |-> Intent(<< >>, << >>, FALSE, TRUE, FALSE, "high", "algorithms",
                            <<"sort", "list">>, <<{"split", "list"}, {"return", "merge"}>>,
                            <<n_compute_sum>>)])

\* About twenty-five words asking for the helper `Clean` that strips a text
\* string and handles errors; process_text is mentioned.
QueryCleanHelper ==
    Norm([params |-> << >>,
          contains |-> {"helper", "clean", "text", "string", "strip", "error", "handle"},
          words |-> 25, terms |-> {"helper", "clean", "text", "string"},
          key_phrases |-> <<"process text", "strip the text">>,
          domain_terms |-> <<"string", "error", "handle">>,
          candidates |-> <<n_process_text>>,
          intent |-> Intent(n_Clean, << >>, FALSE, FALSE, TRUE, "medium", "string_processing",
                            <<"strip">>, << >>, <<n_process_text>>)])

\* "`read` the data, handle any error": fewer than twenty words.
QueryRead ==
    Norm([params |-> << >>, contains |-> {"read", "data", "handle", "error"},
          words |-> 6, terms |-> {"read", "the", "data", "handle", "any", "error"},
          key_phrases |-> <<"the data", "handle any error">>,
          domain_terms |-> <<"read", "error", "handle">>, candidates |-> << >>,
          intent |-> Intent(n_read, << >>, FALSE, FALSE, TRUE, "low", "error_handling",
                            <<"read">>, << >>, << >>)])

Queries == Norm({QueryReadFile, QuerySortAlgorithm, QueryCleanHelper, QueryRead})

\* QueryIntentExtractor.extract_intent, in a process where a set of strings
\* iterates in the order of insertion.
extract_intent(query) == query.intent

\* The lists of the elements of S, each element once.
RECURSIVE Orders(_)
Orders(S) ==
    IF S = {} THEN {<< >>}
    ELSE UNION {{<<x>> \o p : p \in Orders(S \ {x})} : x \in S}

\* list(set(items)): the order in which a set of strings iterates follows the
\* hashes of the strings, which the interpreter draws anew in every process.
ListOfSet(items) == Orders(Range(items))

MaxPotentialNames == 5

\* _extract_potential_names, given the candidates in the order found.
extract_potential_names(candidates) ==
    {SubSeq(p, 1, IF Len(p) < MaxPotentialNames THEN Len(p) ELSE MaxPotentialNames) :
        p \in ListOfSet(candidates)}

\* _extract_key_functions, given the names found.
extract_key_functions(found) == ListOfSet(found)

\* The intents extract_intent can return for a query.
extract_intents(query) ==
    {[query.intent EXCEPT !.key_functions = kf, !.potential_names = pn] :
        kf \in extract_key_functions(query.intent.key_functions),
        pn \in extract_potential_names(query.candidates)}

\* The `weights` argument of the constructor, when one is passed.
CustomWeights ==
    [CodeStructureReranker |-> One, SignatureReranker |-> One, SemanticReranker |-> One]

(***************************************************************************)
(* The state: one EnhancedCombinedReranker instance and the rerank call in *)
(* progress on it.                                                         *)
(*   pc                the state of the call: IDLE (no call yet), RAW,     *)
(*                     EXTRACTED, WEIGHTED, STRUCTURE, SIGNATURE, SCORED,  *)
(*                     ROLE_ADJUSTED, NORMALIZED, HEURISTIC_ADJUSTED, and  *)
(*                     after the return SORTED or FAILED                   *)
(*   weights           reranker.weight of the three rerankers              *)
(*   feature_impacts   self.feature_impacts                                *)
(*   query, query_intent, answer_components, contexts                      *)
(*                     the locals of rerank; after the return, contexts is *)
(*                     the list returned                                   *)
(*   nlp_ok            whether extract_intent returns (it raises when the  *)
(*                     tokenizer data it loads is missing)                 *)
(*   arg_ids           the ids of the list the caller passed               *)
(*   calls             the number of calls made so far                     *)
(*   suspended         the calls of other threads that are not running:    *)
(*                     where each one stands, and what it had bound        *)
(***************************************************************************)
VARIABLES pc, weights, feature_impacts, query, query_intent, answer_components,
          contexts, nlp_ok, arg_ids, calls, suspended

vars == <<pc, weights, feature_impacts, query, query_intent, answer_components,
          contexts, nlp_ok, arg_ids, calls, suspended>>

Returned == Norm({"SORTED", "FAILED"})

\* The ways a call gets its intent: the caller passes it, or rerank extracts
\* it, or rerank tries to and extract_intent raises.
IntentModes == Norm({"given", "extracted", "extraction_raises"})

\* The caller invokes rerank(query, contexts, query_intent): on a fresh batch
\* the first time, afterwards on the list the previous call returned.
Call(q, mode, batch) ==
    /\ pc \in {"IDLE"} \cup Returned
    /\ calls < MaxCalls
    /\ calls' = calls + 1
    /\ pc' = "RAW"
    /\ query' = q
    /\ query_intent' = IF mode = "given" THEN extract_intent(q) ELSE NoneDict
    /\ nlp_ok' = (mode # "extraction_raises")
    /\ answer_components' = NoneDict
    /\ contexts' = batch
    /\ arg_ids' = [i \in 1..Len(contexts') |-> contexts'[i].id]
    /\ UNCHANGED <<suspended, weights, feature_impacts>>

\* An except clause that still sorts what it returns.
FailSorted(ctxs) ==
    /\ pc' = "FAILED"
    /\ contexts' = SortedByFinalScore(ctxs)

\* The except clause of rerank: it returns the list `contexts` is bound to.
Fail(ctxs) ==
    /\ pc' = "FAILED"
    /\ contexts' = ctxs

\* rerank, lines 59-66, given what _preprocess_contexts did.
Preprocessed(r) ==
    IF r.raised
    THEN /\ Fail(r.ctxs)
         /\ UNCHANGED answer_components
    ELSE /\ pc' = "EXTRACTED"
         /\ contexts' = r.ctxs
         /\ answer_components' =
               IF ~IsNone(answer_components) THEN answer_components
               ELSE IF r.ctxs # << >> /\ Has(r.ctxs[1], "components")
               THEN r.ctxs[1].components
               ELSE << >>

\* rerank, lines 54-66: the intent, _preprocess_contexts, the answer
\* components.
Extract ==
    /\ pc = "RAW"
    /\ IF IsNone(query_intent) /\ ~nlp_ok
       THEN /\ Fail(contexts)
            /\ UNCHANGED <<query_intent, answer_components>>
       ELSE /\ query_intent' \in (IF IsNone(query_intent) THEN extract_intents(query)
                                  ELSE {query_intent})
            /\ Preprocessed(preprocess_contexts(contexts, query_intent'))
    /\ UNCHANGED <<suspended, weights, feature_impacts, query, nlp_ok, arg_ids,
                   calls>>

\* rerank, line 69.
AdjustWeights ==
    /\ pc = "EXTRACTED"
    /\ pc' = "WEIGHTED"
    /\ weights' = adjust_weights_for_query(weights, query, query_intent)
    /\ UNCHANGED <<suspended, feature_impacts, query, query_intent,
                   answer_components, contexts, nlp_ok, arg_ids, calls>>

\* rerank, lines 86-93: the scores of the first five contexts, and each
\* context's previous_scores entry.
StoreScores(ctxs, score_key) ==
    [i \in 1..Len(ctxs) |->
        Set(ctxs[i], "previous_scores",
            Set(Get(ctxs[i], "previous_scores", << >>), score_key,
                Get(ctxs[i], score_key, Zero)))]

FirstFive(ctxs, score_key) ==
    [i \in 1..(IF Len(ctxs) < 5 THEN Len(ctxs) ELSE 5) |-> Get(ctxs[i], score_key, Zero)]

\* One iteration of the loop over self.rerankers.
RunReranker(from, to, score_key, reranked) ==
    /\ pc = from
    /\ pc' = to
    /\ contexts' = StoreScores(reranked, score_key)
    /\ feature_impacts' = [feature_impacts EXCEPT ![score_key] = FirstFive(reranked, score_key)]
    /\ UNCHANGED <<suspended, weights, query, query_intent, answer_components,
                   nlp_ok, arg_ids, calls>>

RunStructure ==
    RunReranker("WEIGHTED", "STRUCTURE", "structure_score",
                structure_rerank(contexts, weights.CodeStructureReranker,
                                 answer_components))

RunSignature ==
    RunReranker("STRUCTURE", "SIGNATURE", "signature_score",
                signature_rerank(contexts, weights.SignatureReranker, query_intent))

RunSemantic ==
    RunReranker("SIGNATURE", "SCORED", "semantic_score",
                semantic_rerank(contexts, weights.SemanticReranker, query,
                                query_intent))

\* A stage of the orchestrator after the scorers: its result, or the except
\* clause.
Stage(from, to, r) ==
    /\ pc = from
    /\ IF r.raised THEN Fail(r.ctxs)
       ELSE /\ pc' = to
            /\ contexts' = r.ctxs
    /\ UNCHANGED <<suspended, weights, feature_impacts, query, query_intent,
                   answer_components, nlp_ok, arg_ids, calls>>

\* ast.unparse exists (Python 3.9 and later).
HasUnparse == TRUE

\* rerank, lines 96-97.
RoleAdjust ==
    Stage("SCORED", "ROLE_ADJUSTED",
          boost_main_functions(contexts, function_roles(contexts, HasUnparse)))

\* A normalization that runs as soon as the scorers are done.
NormalizeFirst == Stage("SCORED", "NORMALIZED", normalize_scores(contexts))

\* rerank, line 100.
Normalize == Stage("ROLE_ADJUSTED", "NORMALIZED", normalize_scores(contexts))

\* rerank, line 104, when line 103 has not raised.
QuerySpecific(r, q, intent) ==
    IF r.raised THEN r ELSE apply_query_specific_adjustments(r.ctxs, q, intent)

\* rerank, lines 103-104.
Heuristics ==
    Stage("NORMALIZED", "HEURISTIC_ADJUSTED",
          QuerySpecific(apply_code_quality_heuristics(contexts, query_intent),
                        query, query_intent))

\* A final sort without reverse=True.
SortWithoutReverse ==
    Stage("HEURISTIC_ADJUSTED", "SORTED",
          [ctxs |-> SortedAscending(contexts), raised |-> FALSE])

\* A final sort that is not stable: contexts of equal final_score come out
\* in the reverse of the order they came in.
SortReversingTies ==
    Stage("HEURISTIC_ADJUSTED", "SORTED",
          [ctxs |-> SortedByFinalScore([i \in 1..Len(contexts) |->
                                           contexts[Len(contexts) + 1 - i]]),
           raised |-> FALSE])

\* rerank, line 107.
Sort ==
    Stage("HEURISTIC_ADJUSTED", "SORTED",
          [ctxs |-> SortedByFinalScore(contexts), raised |-> FALSE])

Next ==
    \/ \E q \in Queries, mode \in IntentModes,
          batch \in (IF calls = 0 THEN Batches ELSE {contexts}) :
          Call(q, mode, batch)
    \/ Extract
    \/ AdjustWeights
    \/ RunStructure
    \/ RunSignature
    \/ RunSemantic
    \/ RoleAdjust
    \/ Normalize
    \/ Heuristics
    \/ Sort

(***************************************************************************)
(* Normalization on its own inputs: batches of up to MaxNormCtx contexts   *)
(* without a function, whose retrieval scores are drawn from NormScores,   *)
(* reranked for a query that matches nothing in them, so that each context *)
(* reaches _normalize_scores with final_score = score.                     *)
(***************************************************************************)
MaxNormCtx == 3

NormScores == Norm({Flt(2, 10), Flt(5, 10), Flt(8, 10)})

NormalizeBatches ==
    Norm(UNION {{[i \in 1..n |-> [id |-> i, text |-> TextNoFunction, score |-> f[i]]] :
                   f \in [1..n -> NormScores]} : n \in 0..MaxNormCtx})

\* "show me something useful": no name, no parameter, no domain term.
QueryPlain ==
    Norm([params |-> << >>, contains |-> {"show", "something", "useful"},
          words |-> 4, terms |-> {"show", "something", "useful"},
          key_phrases |-> << >>, domain_terms |-> << >>, candidates |-> << >>,
          intent |-> Intent(<< >>, << >>, FALSE, FALSE, FALSE, "low", "general",
                            << >>, << >>, << >>)])

NextNormalize ==
    \/ \E mode \in Norm({"given", "extracted"}),
          batch \in (IF calls = 0 THEN NormalizeBatches ELSE {contexts}) :
          Call(QueryPlain, mode, batch)
    \/ Extract
    \/ AdjustWeights
    \/ RunStructure
    \/ RunSignature
    \/ RunSemantic
    \/ RoleAdjust
    \/ Normalize
    \/ Heuristics
    \/ Sort

(***************************************************************************)
(* The relationship analyzer on its own inputs: one context whose text     *)
(* defines process, clean (a signature line and a six-line body) and      *)
(* lower (two lines), in that order, where                                 *)
(*   lines   is the number of lines of process (its signature line and its *)
(*           body; no blank line, comment or decorator),                   *)
(*   doc     process starts with a docstring,                              *)
(*   outs    process calls clean (outs >= 1) and lower (outs = 2),         *)
(*   called  clean calls process,                                          *)
(*   ok      the text parses; otherwise a last line with an unclosed       *)
(*           bracket makes ast.parse raise SyntaxError.                    *)
(***************************************************************************)
MaxRoleLines == 11

RoleLines == 2..MaxRoleLines

\* The lines of the text after a signature, as the fallback counts them.
Capped(n) == IF n < 20 THEN n ELSE 20

RoleDefs(lines, doc, outs, called) ==
    <<FuncDef(n_process, TRUE, <<"text">>, None, doc, 0, 0, 0, 0, 0,
              SubSeq(<<NameCall(n_clean), NameCall(n_lower)>>, 1, outs), lines)
         @@ [rest_lines |-> Capped(lines + 10)],
      FuncDef(n_clean, TRUE, <<"s">>, None, FALSE, 0, 0, 0, 0, 0,
              IF called THEN <<NameCall(n_process)>> ELSE << >>, 7)
         @@ [rest_lines |-> 10],
      FuncDef(n_lower, TRUE, <<"s">>, None, FALSE, 0, 0, 0, 0, 0, << >>, 2)
         @@ [rest_lines |-> 3]>>

RoleText(lines, doc, outs, called, ok) ==
    [nlines |-> lines + 9 + (IF ok THEN 0 ELSE 1), imports |-> << >>,
     from_imports |-> << >>, funcs |-> RoleDefs(lines, doc, outs, called),
     classes |-> << >>,
     rx |-> Rx(n_process, <<"text">>, 0, 0, RoleDefs(lines, doc, outs, called)),
     quoted_doc |-> doc, syntax_ok |-> ok,
     contains |-> {"process", "text", "clean", "lower", "return"},
     returns_word |-> TRUE, rx_calls |-> <<"process", "clean", "lower">>,
     doc_terms |-> IF doc THEN {"process", "text"} ELSE {}, doc_params |-> {}]

n_run == <<"r", "u", "n">>

\* def run(text): return run(clean(open(text))): run calls itself, clean
\* (which this text does not define) and open; with ok = FALSE a last line
\* with an unclosed bracket follows.
TextRun(ok) ==
    [nlines |-> IF ok THEN 2 ELSE 3, imports |-> << >>, from_imports |-> << >>,
     funcs |-> <<FuncDef(n_run, TRUE, <<"text">>, None, FALSE, 0, 0, 0, 0, 0,
                         <<NameCall(n_run), NameCall(n_clean), NameCall(n_open)>>, 2)
                    @@ [rest_lines |-> 3]>>,
     classes |-> << >>,
     rx |-> Rx(n_run, <<"text">>, 0, 0,
               <<FuncDef(n_run, TRUE, <<"text">>, None, FALSE, 0, 0, 0, 0, 0,
                         <<NameCall(n_run), NameCall(n_clean), NameCall(n_open)>>, 2)
                    @@ [rest_lines |-> 3]>>),
     quoted_doc |-> FALSE, syntax_ok |-> ok,
     contains |-> {"run", "text", "clean", "open", "return"},
     returns_word |-> TRUE, rx_calls |-> <<"run", "run", "clean", "open">>,
     doc_terms |-> {}, doc_params |-> {}]

\* The batches of one context, and the batches of two in which the one text
\* calls a function that only the other defines.
RoleBatches ==
    Norm({<<[id |-> 1, text |-> RoleText(lines, doc, outs, called, ok), score |-> Flt(5, 10)]>> :
             lines \in RoleLines, doc \in BOOLEAN, outs \in 0..2, called \in BOOLEAN,
             ok \in BOOLEAN}
         \cup {<<[id |-> 1, text |-> TextRun(okRun), score |-> Flt(5, 10)],
                 [id |-> 2, text |-> RoleText(3, TRUE, outs, FALSE, ok), score |-> Flt(6, 10)]>> :
                 okRun \in BOOLEAN, outs \in {0, 2}, ok \in BOOLEAN})

NextRoles ==
    \/ \E mode \in Norm({"given", "extracted"}),
          batch \in (IF calls = 0 THEN RoleBatches ELSE {contexts}) :
          Call(QueryCleanHelper, mode, batch)
    \/ Extract
    \/ AdjustWeights
    \/ RunStructure
    \/ RunSignature
    \/ RunSemantic
    \/ RoleAdjust
    \/ Normalize
    \/ Heuristics
    \/ Sort

(***************************************************************************)
(* The scorers on their own: a caller builds the three scorers with their  *)
(* default weights and invokes their rerank methods itself, in any order,  *)
(* on one list of contexts, with a query, an intent and a reference        *)
(* (answer_components) of its choice.  pc is DIRECT before the first       *)
(* invocation and afterwards names the scorer that ran last.               *)
(***************************************************************************)
MaxDirectRuns == 3

\* The weight each scorer's constructor sets when none is passed.
DefaultWeights ==
    [CodeStructureReranker |-> Flt(10, 10), SignatureReranker |-> Flt(15, 10),
     SemanticReranker |-> Flt(16, 10)]

\* Contexts that have id, score and text only, one that carries components
\* made by DataProcessor, and one whose score is a text.
DirectCatalog == <<Catalog[1], Catalog[2], Catalog[6], Catalog[7]>>

DirectBatches ==
    Norm(UNION {{<<>>} \cup {[i \in 1..n |-> DirectCatalog[f[i]]] :
                             f \in {g \in [1..n -> 1..Len(DirectCatalog)] :
                                       \A a, b \in 1..n : a # b => g[a] # g[b]}} :
                n \in 1..MaxCtx})

\* The references a caller passes: an empty dict, the components DataProcessor
\* makes, the components the extractor makes.
References ==
    Norm({<< >>, DataProcessorComponentsRead, extract_components(TextReadFile)})

DirectStates == Norm({"DIRECT", "RAN_STRUCTURE", "RAN_SIGNATURE", "RAN_SEMANTIC"})

\* The caller's set-up: the scorers, the contexts and the arguments.
Start(batch, q, intent, reference) ==
    /\ pc = "IDLE"
    /\ pc' = "DIRECT"
    /\ contexts' = batch
    /\ arg_ids' = [i \in 1..Len(batch) |-> batch[i].id]
    /\ query' = q
    /\ query_intent' = intent
    /\ answer_components' = reference
    /\ weights' = DefaultWeights
    /\ UNCHANGED <<suspended, feature_impacts, nlp_ok, calls>>

\* contexts = scorer.rerank(query, contexts, query_intent, answer_components)
DirectRun(ran, reranked) ==
    /\ pc \in DirectStates
    /\ calls < MaxDirectRuns
    /\ calls' = calls + 1
    /\ pc' = ran
    /\ contexts' = reranked
    /\ UNCHANGED <<suspended, weights, feature_impacts, query, query_intent,
                   answer_components, nlp_ok, arg_ids>>

DirectStructure ==
    DirectRun("RAN_STRUCTURE",
              structure_rerank(contexts, weights.CodeStructureReranker,
                               answer_components))

DirectSignature ==
    DirectRun("RAN_SIGNATURE",
              signature_rerank(contexts, weights.SignatureReranker, query_intent))

DirectSemantic ==
    DirectRun("RAN_SEMANTIC",
              semantic_rerank(contexts, weights.SemanticReranker, query, query_intent))

NextScorers ==
    \/ \E batch \in DirectBatches, q \in {QueryReadFile, QueryPlain},
          given \in BOOLEAN, reference \in References :
          Start(batch, q, IF given THEN extract_intent(q) ELSE << >>, reference)
    \/ DirectStructure
    \/ DirectSignature
    \/ DirectSemantic

(***************************************************************************)
(* One call whose query mentions more names than potential_names keeps.    *)
(***************************************************************************)
n_tidy == <<"t", "i", "d", "y">>
n_alpha_one == <<"a", "l", "p", "h", "a", "_", "o", "n", "e">>
n_beta_two == <<"b", "e", "t", "a", "_", "t", "w", "o">>
n_gamma_three == <<"g", "a", "m", "m", "a", "_", "t", "h", "r", "e", "e">>
n_delta_four == <<"d", "e", "l", "t", "a", "_", "f", "o", "u", "r">>
n_omega_five == <<"o", "m", "e", "g", "a", "_", "f", "i", "v", "e">>

\* "`tidy` with process_text alpha_one beta_two gamma_three delta_four
\* omega_five": six snake_case names, no word twice, no verb before a noun.
QueryManyNames ==
    Norm([params |-> << >>, contains |-> {"tidy", "with", "process", "text"},
          words |-> 8,
          terms |-> {"tidy", "with", "process_text", "alpha_one", "beta_two",
                     "gamma_three", "delta_four", "omega_five"},
          key_phrases |-> <<"with process", "text alpha", "one beta", "two gamma",
                            "three delta", "four omega">>,
          domain_terms |-> << >>,
          candidates |-> <<n_process_text, n_alpha_one, n_beta_two, n_gamma_three,
                           n_delta_four, n_omega_five>>,
          intent |-> Intent(n_tidy, << >>, FALSE, FALSE, FALSE, "low", "string_processing",
                            << >>, << >>,
                            <<n_process_text, n_alpha_one, n_beta_two, n_gamma_three,
                              n_delta_four>>)])

\* Batches with the context that defines process(text).
NameBatches ==
    Norm({<<Catalog[3]>>, <<Catalog[3], Catalog[2]>>})

NextNames ==
    \/ \E batch \in NameBatches :
          /\ calls = 0
          /\ Call(QueryManyNames, "extracted", batch)
    \/ Extract
    \/ AdjustWeights
    \/ RunStructure
    \/ RunSignature
    \/ RunSemantic
    \/ RoleAdjust
    \/ Normalize
    \/ Heuristics
    \/ Sort

(***************************************************************************)
(* Two calls of rerank at once, one thread each.  pc, query, query_intent, *)
(* answer_components, contexts, nlp_ok and arg_ids are those of the thread *)
(* that is running and suspended holds those of the other thread.  weights *)
(* and feature_impacts are those of the instance the running thread calls: *)
(* when each call has its own instance they are switched along with the    *)
(* thread, when the two calls share one instance they stay.  A thread can  *)
(* lose the processor between any two stages of rerank.                    *)
(***************************************************************************)
\* What the running thread has bound.
Locals ==
    [query_intent |-> query_intent, contexts |-> contexts, query |-> query,
     answer_components |-> answer_components, pc |-> pc, nlp_ok |-> nlp_ok,
     arg_ids |-> arg_ids]

\* The attributes of the instance the running thread calls.
Instance == [weights |-> weights, feature_impacts |-> feature_impacts]

\* The batches of the two calls: no context in both.
ConcurrentBatches ==
    Norm({<<<<Catalog[1], Catalog[2], Catalog[3]>>, <<Catalog[4], Catalog[5], Catalog[6]>>>>,
          <<<<Catalog[6], Catalog[3]>>, <<Catalog[1]>>>>})

\* Two threads call rerank(query, contexts), with no intent: the first one
\* runs, the second one waits at the top of rerank.  The instance of the
\* second call is as the constructor left it.
CallTwo(q1, q2, batches) ==
    /\ pc = "IDLE"
    /\ calls = 0
    /\ calls' = 2
    /\ pc' = "RAW"
    /\ query' = q1
    /\ query_intent' = NoneDict
    /\ answer_components' = NoneDict
    /\ contexts' = batches[1]
    /\ arg_ids' = [i \in 1..Len(batches[1]) |-> batches[1][i].id]
    /\ suspended' = <<[locals |-> [query_intent |-> NoneDict,
                                   contexts |-> batches[2], query |-> q2,
                                   answer_components |-> NoneDict,
                                   pc |-> "RAW", nlp_ok |-> TRUE,
                                   arg_ids |-> [i \in 1..Len(batches[2]) |->
                                                   batches[2][i].id]],
                       instance |-> Instance]>>
    /\ UNCHANGED <<weights, feature_impacts, nlp_ok>>

\* The scheduler takes the processor from the running thread and gives it to
\* the other one, which has not returned yet.
SwitchThread(own_instances) ==
    /\ suspended # << >>
    /\ suspended[1].locals.pc \notin Returned
    /\ pc' = suspended[1].locals.pc
    /\ query' = suspended[1].locals.query
    /\ query_intent' = suspended[1].locals.query_intent
    /\ answer_components' = suspended[1].locals.answer_components
    /\ contexts' = suspended[1].locals.contexts
    /\ nlp_ok' = suspended[1].locals.nlp_ok
    /\ arg_ids' = suspended[1].locals.arg_ids
    /\ weights' = IF own_instances THEN suspended[1].instance.weights ELSE weights
    /\ feature_impacts' = IF own_instances THEN suspended[1].instance.feature_impacts
                          ELSE feature_impacts
    /\ suspended' = <<[locals |-> Locals, instance |-> Instance]>>
    /\ UNCHANGED calls

\* A switch that leaves the instance attributes where they are.
SwitchKeepingInstance == SwitchThread(FALSE)

\* The switch between two calls that have an instance each.
SwitchOwnInstances == SwitchThread(TRUE)

\* The switch between two calls on one instance.
SwitchSharedInstance == SwitchThread(FALSE)

\* The stages of rerank, run by the running thread.
RerankStage ==
    \/ Extract
    \/ AdjustWeights
    \/ RunStructure
    \/ RunSignature
    \/ RunSemantic
    \/ RoleAdjust
    \/ Normalize
    \/ Heuristics
    \/ Sort

NextOwnInstances ==
    \/ \E q1, q2 \in Queries, batches \in ConcurrentBatches :
          /\ q1 # q2
          /\ CallTwo(q1, q2, batches)
    \/ SwitchOwnInstances
    \/ RerankStage

\* On one instance the two calls may be for the same query.
NextSharedInstance ==
    \/ \E q1, q2 \in Queries, batches \in ConcurrentBatches :
          CallTwo(q1, q2, batches)
    \/ SwitchSharedInstance
    \/ RerankStage

(***************************************************************************)
(* What one call of rerank returns when nothing else runs: the stages one  *)
(* after the other, for the intent the call extracted.                     *)
(***************************************************************************)
AloneEnd(r) ==
    IF r.raised THEN [contexts |-> r.ctxs, pc |-> "FAILED"]
    ELSE [contexts |-> SortedByFinalScore(r.ctxs), pc |-> "SORTED"]

AloneHeuristics(r, q, intent) ==
    IF r.raised THEN AloneEnd(r)
    ELSE AloneEnd(QuerySpecific(apply_code_quality_heuristics(r.ctxs, intent),
                                q, intent))

AloneNormalize(r, q, intent) ==
    IF r.raised THEN AloneEnd(r)
    ELSE AloneHeuristics(normalize_scores(r.ctxs), q, intent)

AloneRoles(ctxs, q, intent) ==
    AloneNormalize(boost_main_functions(ctxs, function_roles(ctxs, HasUnparse)),
                   q, intent)

AloneScorers(ctxs, w, q, intent, answer) ==
    AloneRoles(
        StoreScores(
            semantic_rerank(
                StoreScores(
                    signature_rerank(
                        StoreScores(structure_rerank(ctxs, w.CodeStructureReranker,
                                                     answer),
                                    "structure_score"),
                        w.SignatureReranker, intent),
                    "signature_score"),
                w.SemanticReranker, q, intent),
            "semantic_score"),
        q, intent)

AlonePreprocessed(r, w, q, intent) ==
    IF r.raised THEN AloneEnd(r)
    ELSE AloneScorers(r.ctxs, w, q, intent,
                      IF r.ctxs # << >> /\ Has(r.ctxs[1], "components")
                      THEN r.ctxs[1].components ELSE << >>)

RunAlone(q, intent, batch) ==
    AlonePreprocessed(preprocess_contexts(batch, intent),
                      adjust_weights_for_query(base_weights, q, intent), q, intent)

(***************************************************************************)
(* ASTComponentExtractor.extract_components called on its own, on texts    *)
(* that differ in what ast.parse makes of them and in what they hold.      *)
(***************************************************************************)
\* The most of each control structure in a generated text.
MaxCount == 1

\* ast.parse(code_text), line 45: a tree, a SyntaxError, or, for an
\* expression nested deeper than the parser's stack ('-' * 100000 + '1'),
\* a MemoryError.
ParseOutcomes == Norm({"tree", "SyntaxError", "MemoryError"})

ParamLists == Norm({<< >>, <<"a">>, <<"a", "b">>})

CallLists == Norm({<< >>, <<n_open, n_clean>>})

LineCounts == Norm({1, 12})

\* A text of `lines` lines.  With `named` it is def process(params): and a
\* body with the given numbers of if, for, while, try: and except clauses and
\* the given calls; without it the same statements stand at module level.
SourceText(parse, named, params, ifs, fors, whiles, trys, excepts, called, lines) ==
    [nlines |-> lines, imports |-> << >>, from_imports |-> << >>,
     funcs |-> IF named
               THEN <<FuncDef(n_process, TRUE, params, None, FALSE, ifs, fors,
                              whiles, trys, excepts,
                              [i \in 1..Len(called) |-> NameCall(called[i])],
                              lines)>>
               ELSE << >>,
     classes |-> << >>,
     rx |-> [Rx(IF named THEN n_process ELSE << >>, params, trys, excepts, << >>)
                EXCEPT !.if_count = ifs, !.for_count = fors,
                       !.while_count = whiles,
                       !.all_calls = (IF named THEN <<n_process>> ELSE << >>)
                                     \o called],
     quoted_doc |-> FALSE, syntax_ok |-> parse = "tree", contains |-> {},
     returns_word |-> FALSE, rx_calls |-> << >>, doc_terms |-> {},
     doc_params |-> {}, too_deep |-> parse = "MemoryError"]

\* The empty str: ''.split('\n') is [''] and ast.parse('') is an empty Module.
EmptySource == SourceText("tree", FALSE, << >>, 0, 0, 0, 0, 0, << >>, 1)

\* The texts extract_components is called on.  A parameter list needs a def,
\* and a text that parses has no except clause without a try.
SourceTexts ==
    Norm({t \in {SourceText(parse, named, params, ifs, fors, whiles, trys,
                            excepts, called, lines) :
                   parse \in ParseOutcomes, named \in BOOLEAN,
                   params \in ParamLists, ifs \in 0..MaxCount,
                   fors \in 0..MaxCount, whiles \in 0..MaxCount,
                   trys \in 0..MaxCount, excepts \in 0..MaxCount,
                   called \in CallLists, lines \in LineCounts} :
            /\ t.rx.parameters # << >> => t.rx.def_found
            /\ t.syntax_ok /\ t.rx.except_count > 0 => t.rx.try_count > 0})

\* ast.parse raises something other than SyntaxError.
ParseOverflows(text) == Has(text, "too_deep") /\ text.too_deep

\* A call of extract_components (lines 8-57): `except SyntaxError` is the
\* only handler around ast.parse, so any other exception leaves the method.
extract_components_call(text) ==
    IF ParseOverflows(text) THEN Raised ELSE Value(extract_components(text))

ExtractEnds == Norm({"EXTRACT_RETURNED", "EXTRACT_RAISED"})

ExtractCall(text) ==
    LET r == extract_components_call(text)
    IN  /\ pc = "IDLE"
        /\ pc' = IF r.raised THEN "EXTRACT_RAISED" ELSE "EXTRACT_RETURNED"
        /\ contexts' = IF r.raised THEN <<[text |-> text]>> ELSE <<r.v>>
        /\ UNCHANGED <<weights, feature_impacts, query, query_intent,
                       answer_components, nlp_ok, arg_ids, calls, suspended>>

NextExtract == \E text \in SourceTexts : ExtractCall(text)

(***************************************************************************)
(* CodeStructureReranker.compute_structure_similarity called on its own,   *)
(* on component dicts that differ in their imports, counts and lengths.    *)
(***************************************************************************)
ImportLists == Norm({<< >>, <<"os">>, <<"re">>, <<"os", "re">>})

FromImportLists == Norm({<< >>, <<"json">>})

\* The most if statements and calls in a compared dict.
MaxCompared == 1

ComparedLineCounts == Norm({2, 10})

\* A component dict as DataProcessor.extract_code_components makes it:
\* 'function_calls' is a count.
ComparedComponents(imports, from_imports, ifs, called, lines) ==
    [DataProcessorComponentsRead EXCEPT !.imports = imports,
                                        !.from_imports = from_imports,
                                        !.if_count = ifs,
                                        !.function_calls = IntVal(called),
                                        !.line_count = lines]

\* The candidates' dicts.
ComparedDicts ==
    Norm({ComparedComponents(imports, from_imports, ifs, called, lines) :
            imports \in ImportLists, from_imports \in FromImportLists,
            ifs \in 0..MaxCompared, called \in 0..MaxCompared,
            lines \in ComparedLineCounts})

\* The references: an empty dict, and dicts of the candidates' shape.
ComparedReferences ==
    Norm({<< >>}
         \cup {ComparedComponents(imports, from_imports, 1, 1, 10) :
                 imports \in ImportLists, from_imports \in FromImportLists})

\* structure_score = compute_structure_similarity(components, reference)
CompareStructure(components, reference) ==
    LET r == compute_structure_similarity(components, reference)
    IN  /\ pc = "IDLE"
        /\ pc' = IF r.raised THEN "COMPARE_RAISED" ELSE "COMPARED"
        /\ contexts' = IF r.raised THEN <<[components |-> components]>>
                       ELSE <<[components |-> components, structure_score |-> r.v]>>
        /\ answer_components' = reference
        /\ UNCHANGED <<weights, feature_impacts, query, query_intent, nlp_ok,
                       arg_ids, calls, suspended>>

NextStructure ==
    \E components \in ComparedDicts, reference \in ComparedReferences :
        CompareStructure(components, reference)

(***************************************************************************)
(* EnhancedCombinedReranker._apply_code_quality_heuristics called on its   *)
(* own, on one context, for component dicts and intents that differ in     *)
(* what the heuristic reads.                                               *)
(***************************************************************************)
QualityLineCounts == Norm({2, 3, 10, 15, 16, 20, 30, 31})

ComplexityLabels == Norm({"low", "medium", "high"})

\* A return annotation as the extractor stores it, or None.
ReturnTypes == Norm({None, "int"})

\* Dicts made by ASTComponentExtractor, and dicts made by
\* DataProcessor.extract_code_components for a function without a return
\* annotation and without :return: in a docstring (return_type == []).
QualityDicts ==
    Norm({[DefaultComponents(EmptyText) EXCEPT !.has_docstring = docstring,
                                               !.error_handling = handled,
                                               !.line_count = lines,
                                               !.parameters = params,
                                               !.return_type = returns] :
            docstring \in BOOLEAN, handled \in BOOLEAN,
            lines \in QualityLineCounts, params \in ParamLists,
            returns \in ReturnTypes}
         \cup {[DataProcessorComponentsRead EXCEPT !.line_count = lines,
                                                   !.parameters = params] :
                 lines \in QualityLineCounts, params \in ParamLists})

QualityIntents ==
    Norm({Intent(<< >>, params, has_return, has_docstring, error_handling,
                 complexity, "general", << >>, << >>, << >>) :
            params \in ParamLists, has_return \in BOOLEAN,
            has_docstring \in BOOLEAN, error_handling \in BOOLEAN,
            complexity \in ComplexityLabels})

\* self._apply_code_quality_heuristics([ctx], query_intent), ctx normalized.
ApplyQuality(components, intent) ==
    LET ctx == [id |-> 1, final_score |-> Flt(5, 10), components |-> components]
        r == apply_code_quality_heuristics(<<ctx>>, intent)
    IN  /\ pc = "IDLE"
        /\ pc' = IF r.raised THEN "QUALITY_RAISED" ELSE "QUALITY_APPLIED"
        /\ contexts' = r.ctxs
        /\ query_intent' = intent
        /\ UNCHANGED <<weights, feature_impacts, query, answer_components,
                       nlp_ok, arg_ids, calls, suspended>>

NextQuality ==
    \E components \in QualityDicts, intent \in QualityIntents :
        ApplyQuality(components, intent)

(***************************************************************************)
(* The initial state, an orchestrator just constructed with the default or *)
(* with custom weights, and the specifications.                            *)
(***************************************************************************)
Init ==
    /\ pc = "IDLE"
    /\ weights \in {base_weights, CustomWeights}
    /\ feature_impacts = [structure_score |-> << >>, signature_score |-> << >>,
                          semantic_score |-> << >>]
    /\ query = NoneDict
    /\ query_intent = NoneDict
    /\ answer_components = NoneDict
    /\ contexts = << >>
    /\ nlp_ok = TRUE
    /\ arg_ids = << >>
    /\ calls = 0
    /\ suspended = << >>

Spec == Init /\ [][Next]_vars

SpecNormalize == Init /\ [][NextNormalize]_vars

SpecRoles == Init /\ [][NextRoles]_vars

SpecScorers == Init /\ [][NextScorers]_vars

SpecNames == Init /\ [][NextNames]_vars

SpecOwnInstances == Init /\ [][NextOwnInstances]_vars

SpecSharedInstance == Init /\ [][NextSharedInstance]_vars

SpecExtract == Init /\ [][NextExtract]_vars

SpecStructure == Init /\ [][NextStructure]_vars

SpecQuality == Init /\ [][NextQuality]_vars

(***************************************************************************)
(* The properties checked.                                                 *)
(***************************************************************************)
Ids(cs) == [i \in 1..Len(cs) |-> cs[i].id]

Count(seq, x) == Cardinality({i \in 1..Len(seq) : seq[i] = x})

IsPermutation(a, b) ==
    /\ Len(a) = Len(b)
    /\ \A x \in Range(a) \cup Range(b) : Count(a, x) = Count(b, x)

\* C1: after a call that reaches SORTED, final_score is non-increasing from
\* the first to the last element of the returned sequence.
C1_SortedNonIncreasing ==
    pc = "SORTED" =>
        \A i \in 1..(Len(contexts) - 1) :
            Le(contexts[i + 1].final_score, contexts[i].final_score)

\* A call returned two contexts in the opposite of the order it was given
\* them, the first with the strictly greater final_score.
C1_Witness ==
    /\ pc = "SORTED"
    /\ Len(contexts) = 2
    /\ Ids(contexts) = <<arg_ids[2], arg_ids[1]>>
    /\ Lt(contexts[2].final_score, contexts[1].final_score)

\* C2: on the success path and on the failure path alike, the returned
\* sequence holds every context of the input exactly once and nothing else.
C2_ReturnedIsPermutation ==
    pc \in Returned => IsPermutation(Ids(contexts), arg_ids)

\* A call failed after a scorer had reordered the two contexts it was given.
C2_Witness ==
    /\ pc = "FAILED"
    /\ Len(contexts) = 2
    /\ Ids(contexts) = <<arg_ids[2], arg_ids[1]>>

\* What each stage does on the state it is about to run on.
IntentExtractionRaises == IsNone(query_intent) /\ ~nlp_ok

PreprocessResult ==
    preprocess_contexts(contexts, IF IsNone(query_intent) THEN extract_intent(query)
                                  ELSE query_intent)

StructureLoop ==
    ForEach(contexts,
            LAMBDA c : StructureContext(c, weights.CodeStructureReranker,
                                        answer_components))

SignatureLoop ==
    ForEach(contexts,
            LAMBDA c : SignatureContext(c, weights.SignatureReranker, query_intent))

SemanticLoop ==
    ForEach(contexts,
            LAMBDA c : SemanticContext(c, weights.SemanticReranker, query,
                                       query_intent))

RoleResult == boost_main_functions(contexts, function_roles(contexts, HasUnparse))

NormalizeResult == normalize_scores(contexts)

QualityResult == apply_code_quality_heuristics(contexts, query_intent)

HeuristicsResult == QuerySpecific(QualityResult, query, query_intent)

\* The stage about to run raises, and the list `contexts` is bound to at
\* that point.
OrchestratorStageRaises ==
    \/ pc = "RAW" /\ (IntentExtractionRaises \/ PreprocessResult.raised)
    \/ pc = "SCORED" /\ RoleResult.raised
    \/ pc = "ROLE_ADJUSTED" /\ NormalizeResult.raised
    \/ pc = "NORMALIZED" /\ HeuristicsResult.raised

ListAtFailure ==
    CASE pc = "RAW" -> IF IntentExtractionRaises THEN contexts ELSE PreprocessResult.ctxs
      [] pc = "SCORED" -> RoleResult.ctxs
      [] pc = "ROLE_ADJUSTED" -> NormalizeResult.ctxs
      [] pc = "NORMALIZED" -> HeuristicsResult.ctxs

ScorerRaises ==
    \/ pc = "WEIGHTED" /\ StructureLoop.raised
    \/ pc = "STRUCTURE" /\ SignatureLoop.raised
    \/ pc = "SIGNATURE" /\ SemanticLoop.raised

\* The fields of a context other than the bookkeeping of rerank lines 86-93.
WithoutPreviousScores(c) == [k \in DOMAIN c \ {"previous_scores"} |-> c[k]]

ListAtScorerRaise ==
    CASE pc = "WEIGHTED" -> StructureLoop.ctxs
      [] pc = "STRUCTURE" -> SignatureLoop.ctxs
      [] pc = "SIGNATURE" -> SemanticLoop.ctxs

NextStage ==
    CASE pc = "WEIGHTED" -> "STRUCTURE"
      [] pc = "STRUCTURE" -> "SIGNATURE"
      [] pc = "SIGNATURE" -> "SCORED"

\* C3, as amended: when intent extraction, preprocessing, role adjustment,
\* normalization or a heuristic raises, the call returns at once with the
\* list as it was at the point of failure, unsorted, and nothing runs after
\* it but a new call; when a scorer raises, the scorer itself catches the
\* exception and returns the list it was given, mutations made so far kept,
\* and the orchestrator goes on with the next stage.
C3_StageFailure ==
    [][/\ OrchestratorStageRaises => (pc' = "FAILED" /\ contexts' = ListAtFailure)
       /\ pc = "FAILED" => pc' = "RAW"
       /\ ScorerRaises =>
             /\ pc' = NextStage
             /\ [i \in 1..Len(contexts') |-> WithoutPreviousScores(contexts'[i])]
                   = [i \in 1..Len(contexts) |->
                         WithoutPreviousScores(ListAtScorerRaise[i])]]_vars

\* A call failed and returned two contexts that are not in the order of
\* their final_score.
C3_Witness ==
    /\ pc = "FAILED"
    /\ Len(contexts) = 2
    /\ Has(contexts[1], "final_score")
    /\ Has(contexts[2], "final_score")
    /\ Lt(contexts[1].final_score, contexts[2].final_score)

\* C3 as stated: whatever stage raises, a scorer included, the call stops
\* there.
C3_AnyStageRaiseStops ==
    [][(OrchestratorStageRaises \/ ScorerRaises) => pc' = "FAILED"]_vars

\* score + name-match boost + the three scorers' weight x raw score, on a
\* context whose score is a number.
AdditiveScore(c) ==
    Add(Add(Add(Add(c.score, Get(c, "name_match_boost", Zero)),
                Mul(weights.CodeStructureReranker, Get(c, "structure_score", Zero))),
            Mul(weights.SignatureReranker, Get(c, "signature_score", Zero))),
        Mul(weights.SemanticReranker, Get(c, "semantic_score", Zero)))

\* C4: after SCORED every context (whose score is a number) has final_score =
\* retrieval score + name-match boost + the sum over the three scorers of
\* weight x raw score, no scorer having reset final_score.
C4_ScorersAdd ==
    pc = "SCORED" /\ calls = 1 =>
        \A i \in 1..Len(contexts) :
            ~IsStr(contexts[i].score) =>
                contexts[i].final_score = AdditiveScore(contexts[i])

\* The states in which a scorer is about to run with the weights of the
\* state.
Scoring == Norm({"WEIGHTED", "STRUCTURE", "SIGNATURE"})

\* C5: in every call on the one instance, the weights the scorers run with
\* are those a new instance computes for this call's query and intent: the
\* base weights plus this call's adjustments, whatever the earlier calls
\* were.
C5_WeightsOfThisCallOnly ==
    pc \in Scoring =>
        \A name \in DOMAIN weights :
            weights[name] = Add(base_weights[name],
                                Adjustments(query, query_intent)[name])

\* A scorer is about to run in a second call whose intent names no function,
\* on contexts that carry the name-match boost of an earlier call whose
\* intent named one.
C5_Witness ==
    /\ pc \in Scoring
    /\ calls = 2
    /\ query_intent.function_name = << >>
    /\ \E i \in 1..Len(contexts) : Has(contexts[i], "name_match_boost")
    /\ weights # base_weights

\* The adjustments, in tenths, for <<structure, signature, semantic>>.
DomainTenths(domain) ==
    CASE domain = "file_io" -> <<0, 2, 1>>
      [] domain = "string_processing" -> <<2, 0, 0>>
      [] domain = "data_structures" -> <<2, 0, 0>>
      [] domain = "error_handling" -> <<1, 1, 0>>
      [] domain = "algorithms" -> <<3, 0, 1>>
      [] OTHER -> <<0, 0, 0>>

ComplexityTenths(complexity) ==
    CASE complexity = "high" -> <<2, 0, 1>>
      [] complexity = "low" -> <<0, 2, 0>>
      [] OTHER -> <<0, 0, 0>>

WordCountTenths(n) ==
    IF n > 50 THEN <<0, 0, 2>> ELSE IF n < 20 THEN <<0, 1, 0>> ELSE <<0, 0, 0>>

TableWeight(base, k) ==
    Flt(base + DomainTenths(query_intent.domain)[k]
             + ComplexityTenths(query_intent.complexity)[k]
             + WordCountTenths(query.words)[k], 10)

\* C6: at WEIGHTED the weights are 1.2, 1.8 and 1.6 plus the adjustments of
\* the query's domain, complexity label and word count; with domain
\* algorithms and complexity high the Structure weight is at least 1.7.
C6_WeightTable ==
    pc = "WEIGHTED" =>
        /\ weights.CodeStructureReranker = TableWeight(12, 1)
        /\ weights.SignatureReranker = TableWeight(18, 2)
        /\ weights.SemanticReranker = TableWeight(16, 3)
        /\ (query_intent.domain = "algorithms" /\ query_intent.complexity = "high")
              => Le(Flt(17, 10), weights.CodeStructureReranker)

\* The weights of a query of domain algorithms, complexity high and more
\* than fifty words: 1.7, 1.8, 2.0.
C6_Witness ==
    /\ pc = "WEIGHTED"
    /\ query_intent.domain = "algorithms"
    /\ query_intent.complexity = "high"
    /\ weights = [CodeStructureReranker |-> Flt(17, 10),
                  SignatureReranker |-> Flt(18, 10),
                  SemanticReranker |-> Flt(20, 10)]

\* final_score = score + boost, where adding no boost leaves the score as it
\* is.
ScorePlus(c, boost) ==
    IF boost = Zero THEN c.final_score = c.score
    ELSE c.final_score = Add(c.score, boost)

ComponentName(c) == Get(Get(c, "components", << >>), "function_name", << >>)

\* The boost as C7 states it: the names compared as they are, whether or not
\* the intent names a function.
StatedBoost(name, intent) ==
    IF name = intent.function_name THEN Flt(30, 100)
    ELSE IF IsSubstr(name, intent.function_name) \/ IsSubstr(intent.function_name, name)
    THEN Flt(15, 100)
    ELSE IF \E i \in 1..Len(intent.potential_names) : intent.potential_names[i] = name
    THEN Flt(10, 100)
    ELSE Zero

\* C7 as stated.
C7_StatedBoost ==
    pc = "EXTRACTED" =>
        \A i \in 1..Len(contexts) :
            ScorePlus(contexts[i], StatedBoost(ComponentName(contexts[i]), query_intent))

\* The boost the code gives: none when the intent names no function;
\* otherwise, on the lower-cased names, 0.3 when they are equal, else 0.15
\* when one occurs in the other (the empty name occurs in every name), else
\* 0.1 when a lower-cased potential name occurs in the context's name or the
\* context's name in it, else 0.
LowerCasedBoost(name, intent) ==
    IF intent.function_name = << >> THEN Zero
    ELSE IF Lower(name) = Lower(intent.function_name) THEN Flt(30, 100)
    ELSE IF \/ IsSubstr(Lower(name), Lower(intent.function_name))
            \/ IsSubstr(Lower(intent.function_name), Lower(name))
    THEN Flt(15, 100)
    ELSE IF \E i \in 1..Len(intent.potential_names) :
               \/ IsSubstr(Lower(intent.potential_names[i]), Lower(name))
               \/ IsSubstr(Lower(name), Lower(intent.potential_names[i]))
    THEN Flt(10, 100)
    ELSE Zero

\* C7, as amended: at EXTRACTED every context's final_score is its retrieval
\* score plus the boost of the first rule that matches, the rules applying
\* only when the intent names a function, comparing lower-cased names, and
\* the potential-name rule being a substring test in either direction.
C7_LowerCasedBoost ==
    pc = "EXTRACTED" =>
        \A i \in 1..Len(contexts) :
            ScorePlus(contexts[i], LowerCasedBoost(ComponentName(contexts[i]), query_intent))

\* A first call is at EXTRACTED with one context boosted by 0.3 and another
\* by 0.1 or 0.15.
C7_Witness ==
    /\ pc = "EXTRACTED"
    /\ calls = 1
    /\ \E i, j \in 1..Len(contexts) :
          /\ Get(contexts[i], "name_match_boost", Zero) = Flt(30, 100)
          /\ contexts[i].final_score = Add(contexts[i].score, Flt(30, 100))
          /\ Get(contexts[j], "name_match_boost", Zero) \in {Flt(10, 100), Flt(15, 100)}

FinalScores(cs) == [i \in 1..Len(cs) |-> cs[i].final_score]

ScoreSet(cs) == {cs[i].final_score : i \in 1..Len(cs)}

\* (x - min) / (max - min) over the scores S.
MinMax(x, S) == Div(Sub(x, MinOf(S)), Sub(MaxOf(S), MinOf(S)))

\* C8: normalization maps each final_score to (final_score - min) /
\* (max - min) over the batch, the smallest to 0 and the largest to 1, and
\* leaves every final_score as it is when the batch is empty or all its
\* scores are equal.
C8_MinMaxNormalization ==
    [][(pc = "ROLE_ADJUSTED" /\ pc' = "NORMALIZED") =>
          /\ Len(contexts') = Len(contexts)
          /\ IF contexts # << >> /\ Lt(MinOf(ScoreSet(contexts)), MaxOf(ScoreSet(contexts)))
             THEN \A i \in 1..Len(contexts) :
                     /\ contexts'[i].final_score
                           = MinMax(contexts[i].final_score, ScoreSet(contexts))
                     /\ contexts[i].final_score = MinOf(ScoreSet(contexts))
                           => contexts'[i].final_score = Zero
                     /\ contexts[i].final_score = MaxOf(ScoreSet(contexts))
                           => contexts'[i].final_score = One
             ELSE FinalScores(contexts') = FinalScores(contexts)]_vars

\* Three contexts that entered normalization with the scores 0.5, 0.5 and
\* 0.2 have left it with 1, 1 and 0.
C8_Witness ==
    /\ pc = "NORMALIZED"
    /\ calls = 1
    /\ [i \in 1..Len(contexts) |-> contexts[i].score]
          = <<Flt(5, 10), Flt(5, 10), Flt(2, 10)>>
    /\ FinalScores(contexts) = <<One, One, Zero>>

\* What the analyzer knows of the batch in the state.
CallGraph == build_call_graph(contexts)

Signatures == collect_function_signatures(contexts, HasUnparse)

Roles == function_roles(contexts, HasUnparse)

Incoming(name) == Cardinality({caller \in DOMAIN CallGraph : name \in CallGraph[caller]})

Outgoing(name) == Cardinality(CallGraph[name])

\* The first matching rule, `length` being the length the rules test.
RuleRole(incoming, outgoing, has_docstring, length) ==
    CASE incoming >= 1 /\ outgoing = 0 /\ length <= 10 -> "helper"
      [] ~(incoming >= 1 /\ outgoing = 0 /\ length <= 10)
         /\ incoming = 0 /\ outgoing >= 1 /\ has_docstring -> "main"
      [] ~(incoming >= 1 /\ outgoing = 0 /\ length <= 10)
         /\ incoming = 0 /\ outgoing = 0 /\ length <= 5 -> "utility"
      [] OTHER -> "general"

\* C9, as amended: every function known to the analyzer has the one role of
\* the first matching rule, the length tested being the line_count the
\* analyzer recorded for it: the lines of the unparsed definition, signature
\* line included (on a text that parses).  So no incoming call, two outgoing
\* calls and a docstring give main, and one incoming call, no outgoing call
\* and a six-line body (a line_count of 7) give helper.
C9_RolesByRecordedLineCount ==
    /\ DOMAIN Roles = AllDefNames(contexts)
    /\ \A name \in DOMAIN Roles :
          /\ Roles[name] = RuleRole(Incoming(name), Outgoing(name),
                                    Signatures[name].has_docstring,
                                    Signatures[name].line_count)
          /\ (Incoming(name) = 0 /\ Outgoing(name) = 2 /\ Signatures[name].has_docstring)
                => Roles[name] = "main"
          /\ (Incoming(name) = 1 /\ Outgoing(name) = 0 /\ Signatures[name].line_count = 7)
                => Roles[name] = "helper"

\* The batch defines a main function (no caller, two callees, a docstring)
\* and a helper with a six-line body, one caller and no callee.
C9_Witness ==
    /\ pc = "SCORED"
    /\ Len(contexts) = 1
    /\ contexts[1].text.syntax_ok
    /\ Incoming(n_process) = 0
    /\ Outgoing(n_process) = 2
    /\ Signatures[n_process].has_docstring
    /\ Roles[n_process] = "main"
    /\ Incoming(n_clean) = 1
    /\ Outgoing(n_clean) = 0
    /\ Signatures[n_clean].line_count = 7
    /\ Roles[n_clean] = "helper"

\* The lines of the body of a definition of a text that parses: the lines of
\* the definition but its signature line.
BodyLines(name) ==
    LastDef(contexts[1].text.funcs, name).unparsed - 1

\* C9 as stated, on a batch of one context whose text parses: the length
\* tested is the number of lines of the body.
C9_RolesByBodyLines ==
    (Len(contexts) = 1 /\ Has(contexts[1], "text") /\ contexts[1].text.syntax_ok) =>
        \A name \in DOMAIN Roles :
            Roles[name] = RuleRole(Incoming(name), Outgoing(name),
                                   Signatures[name].has_docstring, BodyLines(name))

\* f -> g is an edge of the call graph.
Edge(f, g) == f \in DOMAIN CallGraph /\ g \in CallGraph[f]

\* A definition of f in `text` calls g by a plain name in its body.
CallsByName(text, f, g) ==
    \E k \in 1..Len(text.funcs) :
        /\ text.funcs[k].name = f
        /\ \E c \in 1..Len(text.funcs[k].calls) :
              text.funcs[k].calls[c] = NameCall(g)

\* The names the text defines.
DefinedIn(text) == {text.funcs[k].name : k \in 1..Len(text.funcs)}

\* C11 as stated: for f and g defined anywhere in the batch, in one context
\* or in two, f -> g is an edge whenever the body of f calls g by name, and
\* no edge leads to a name the batch does not define.
C11_EdgesAcrossContexts ==
    pc = "SCORED" =>
        /\ \A f, g \in AllDefNames(contexts) :
              (\E i \in 1..Len(contexts) : CallsByName(ContextText(contexts[i]), f, g))
                 => Edge(f, g)
        /\ \A f \in DOMAIN CallGraph : CallGraph[f] \subseteq AllDefNames(contexts)

\* f -> g is an edge on account of one text: the text defines both and, when
\* it parses, its last definition of f calls g by a plain name; when it does
\* not parse, g is another function than f.
EdgeWithin(text, f, g) ==
    /\ {f, g} \subseteq DefinedIn(text)
    /\ IF text.syntax_ok
       THEN \E c \in 1..Len(LastDef(text.funcs, f).calls) :
               LastDef(text.funcs, f).calls[c] = NameCall(g)
       ELSE g # f

\* C11, as amended: the call graph is built text by text and merged over the
\* batch: f -> g is an edge exactly when some one context's text defines
\* both f and g and f calls g by name there (on a text that does not parse:
\* and g is another function of that text); a call to a function that only
\* another context defines, or that the batch does not define, is no edge.
C11_EdgesWithinOneText ==
    pc = "SCORED" =>
        /\ \A f, g \in AllDefNames(contexts) :
              Edge(f, g) <=> \E i \in 1..Len(contexts) :
                                EdgeWithin(ContextText(contexts[i]), f, g)
        /\ \A f \in DOMAIN CallGraph : CallGraph[f] \subseteq AllDefNames(contexts)

\* The analyzer is about to be built on two contexts: run, defined in the
\* first, calls itself and clean, and clean is defined in the second only;
\* run -> run is an edge and run -> clean is not, while process -> clean,
\* both of the second text, is.
C11_Witness ==
    /\ pc = "SCORED"
    /\ Len(contexts) = 2
    /\ \E i, j \in 1..2 :
          /\ i # j
          /\ ContextText(contexts[i]).syntax_ok
          /\ CallsByName(ContextText(contexts[i]), n_run, n_clean)
          /\ n_clean \notin DefinedIn(ContextText(contexts[i]))
          /\ n_clean \in DefinedIn(ContextText(contexts[j]))
    /\ Edge(n_run, n_run)
    /\ ~Edge(n_run, n_clean)
    /\ Edge(n_process, n_clean)

\* The fields of a context but its final_score.
WithoutFinalScore(c) == [k \in DOMAIN c \ {"final_score"} |-> c[k]]

\* The role of the function a context is keyed by: that of its extracted
\* function name, general when the name is empty or unknown to the analyzer.
KeyRole(c) ==
    IF ComponentName(c) # << >> /\ ComponentName(c) \in DOMAIN Roles
    THEN Roles[ComponentName(c)] ELSE "general"

\* C10: the role adjustment adds 0.1 to the final_score of a context whose
\* function name has the role main, subtracts 0.05 when the role is helper,
\* and leaves it as it is otherwise; it changes nothing else, neither
\* another field nor the order of the list.
C10_RoleAdjustment ==
    [][(pc = "SCORED" /\ pc' = "ROLE_ADJUSTED") =>
          /\ Len(contexts') = Len(contexts)
          /\ \A i \in 1..Len(contexts) :
                /\ WithoutFinalScore(contexts'[i]) = WithoutFinalScore(contexts[i])
                /\ KeyRole(contexts[i]) = "main" =>
                      contexts'[i].final_score
                         = Add(contexts[i].final_score, Flt(10, 100))
                /\ KeyRole(contexts[i]) = "helper" =>
                      contexts'[i].final_score
                         = Sub(contexts[i].final_score, Flt(5, 100))
                /\ KeyRole(contexts[i]) \notin {"main", "helper"} =>
                      contexts'[i].final_score = contexts[i].final_score]_vars

\* Role adjustment has just run, in a first call, on a context keyed by a
\* main function and one keyed by a helper: the scorers had left each with
\* score + name-match boost + weighted scores, and the two now differ from
\* that by +0.1 and by -0.05.
C10_Witness ==
    /\ pc = "ROLE_ADJUSTED"
    /\ calls = 1
    /\ Len(contexts) = 2
    /\ \E i, j \in 1..2 :
          /\ KeyRole(contexts[i]) = "main"
          /\ contexts[i].final_score = Add(AdditiveScore(contexts[i]), Flt(10, 100))
          /\ KeyRole(contexts[j]) = "helper"
          /\ contexts[j].final_score = Sub(AdditiveScore(contexts[j]), Flt(5, 100))

\* The components are those the component extractor makes: 'function_calls'
\* is the list of the names called.
ExtractorMade(c) ==
    /\ Has(c, "components")
    /\ Has(c.components, "function_calls")
    /\ IsList(c.components.function_calls)

ScoreFields == Norm({"components", "final_score", "structure_score", "signature_score",
                     "semantic_score"})

\* C12: after a call that reaches SORTED, every returned context whose
\* components the component extractor made carries components, final_score,
\* structure_score, signature_score and semantic_score.
C12_ScoreFieldsPresent ==
    pc = "SORTED" =>
        \A i \in 1..Len(contexts) :
            ExtractorMade(contexts[i]) => ScoreFields \subseteq DOMAIN contexts[i]

\* The raw score each scorer computes for a context in the state, when it
\* computes one.
RawStructure(c) == compute_structure_similarity(c.components, answer_components)
RawSignature(c) == compute_signature_similarity(c.components, query_intent)
RawSemantic(c) == compute_semantic_similarity(query, ContextText(c), query_intent)

PreviousScoresOf(c, structure) ==
    /\ Has(c, "previous_scores")
    /\ DOMAIN c.previous_scores = {"structure_score", "signature_score", "semantic_score"}
    /\ ~structure.raised
    /\ c.previous_scores.structure_score = structure.v
    /\ c.previous_scores.signature_score = RawSignature(c)
    /\ c.previous_scores.semantic_score = RawSemantic(c)

\* C13: at SCORED every context has a previous_scores mapping with the three
\* entries structure_score, signature_score and semantic_score, each the raw
\* score that scorer computes for the context in this call.
C13_PreviousScoresAreRawScores ==
    pc = "SCORED" =>
        \A i \in 1..Len(contexts) : PreviousScoresOf(contexts[i], RawStructure(contexts[i]))

\* C14: a score that arrives as text is coerced to the float it denotes
\* before scoring, and the call goes on to SORTED: once the intent is there
\* and preprocessing has run, no context's score is a text, whether the call
\* is still running, has returned sorted or has failed.
C14_TextScoresCoerced ==
    (pc \notin {"IDLE", "RAW"} /\ nlp_ok) =>
        \A i \in 1..Len(contexts) : ~IsStr(contexts[i].score)

\* C15: for the query "def read_file(path): :param path: file path :return:
\* contents" and the contexts [1: score 0.5, read_file with a docstring and
\* try/except; 2: score 0.9, compute_sum], the call returns context 1 before
\* context 2; a call that sorts does so in whichever order the two were given.
C15_ReadFileRanksFirst ==
    (pc \in Returned /\ calls = 1 /\ query = QueryReadFile) =>
        /\ arg_ids = <<1, 2>> => Ids(contexts) = <<1, 2>>
        /\ (pc = "SORTED" /\ arg_ids = <<2, 1>>) => Ids(contexts) = <<1, 2>>

\* The call of the scenario has returned sorted: context 1, whose retrieval
\* score is the lower one, is first with the greater final_score.
C15_Witness ==
    /\ pc = "SORTED"
    /\ calls = 1
    /\ query = QueryReadFile
    /\ arg_ids = <<1, 2>>
    /\ Ids(contexts) = <<1, 2>>
    /\ Lt(contexts[1].score, contexts[2].score)
    /\ Lt(contexts[2].final_score, contexts[1].final_score)
    /\ contexts[1].signature_score = One

\* The features of a context: its components, or those the component
\* extractor makes of its text.
FeaturesOf(c) ==
    IF Has(c, "components") THEN c.components ELSE extract_components(ContextText(c))

InUnit(x) == Le(Zero, x) /\ Le(x, One)

StructureInUnit(r, reference) ==
    /\ ~r.raised
    /\ InUnit(r.v)
    /\ reference = << >> => r.v = Zero

SignatureInUnit(v, intent) ==
    /\ InUnit(v)
    /\ intent = << >> => v = Zero

\* C16: for every features and reference each scorer returns a value in
\* [0,1], the weighted sum of its similarities over the weight applied, a
\* feature the reference lacks adding no weight: a reference with no feature
\* at all gives 0.
C16_ScoresAreWeightedMeans ==
    pc = "DIRECT" =>
        \A i \in 1..Len(contexts) :
            /\ StructureInUnit(compute_structure_similarity(FeaturesOf(contexts[i]),
                                                            answer_components),
                               answer_components)
            /\ SignatureInUnit(compute_signature_similarity(FeaturesOf(contexts[i]),
                                                            query_intent),
                               query_intent)
            /\ InUnit(compute_semantic_similarity(query, ContextText(contexts[i]),
                                                  query_intent))

\* A context as retrieval hands it over: id, a numeric score and text only.
RawContext(c) == DOMAIN c = {"id", "score", "text"} /\ ~IsStr(c.score)

\* The score field and the weight of the scorer that pc names.
NamedScore(ran) ==
    CASE ran = "RAN_STRUCTURE" -> "structure_score"
      [] ran = "RAN_SIGNATURE" -> "signature_score"
      [] OTHER -> "semantic_score"

WeightOf(ran) ==
    CASE ran = "RAN_STRUCTURE" -> weights.CodeStructureReranker
      [] ran = "RAN_SIGNATURE" -> weights.SignatureReranker
      [] OTHER -> weights.SemanticReranker

Contributed(c, ran) ==
    /\ Has(c, NamedScore(ran))
    /\ Has(c, "final_score")
    /\ c.final_score = Add(c.score, Mul(WeightOf(ran), c[NamedScore(ran)]))

\* C17: a scorer invoked first, on contexts that have id, score and text
\* only, leaves on every context its named score and a final_score that is
\* the score plus its weighted contribution.
C17_ScorerRunsAlone ==
    [][(/\ pc = "DIRECT"
        /\ pc' # "DIRECT"
        /\ \A i \in 1..Len(contexts) : RawContext(contexts[i]))
       => \A i \in 1..Len(contexts') : Contributed(contexts'[i], pc')]_vars

\* C18: the intent rerank extracts is determined by the query: it is the
\* intent every run of extract_intent on that query returns, potential_names
\* included.
C18_IntentDetermined ==
    (pc = "EXTRACTED" /\ calls = 1) =>
        \A intent \in extract_intents(query) : query_intent = intent

\* What the call with these locals returns when it runs alone on the batch
\* it was given.
CallAlone(c) ==
    RunAlone(c.query, c.query_intent, [i \in 1..Len(c.arg_ids) |-> Catalog[c.arg_ids[i]]])

\* A call that has returned has returned that, the list and the way out.
AsAlone(c) ==
    c.pc \in Returned => [contexts |-> c.contexts, pc |-> c.pc] = CallAlone(c)

\* C19: two calls for different queries run at once, each on its own
\* instance and its own batch: however their stages interleave, each call
\* returns what it returns when run alone.
C19_OwnInstancesAsAlone ==
    calls = 2 =>
        /\ AsAlone(Locals)
        /\ \A i \in 1..Len(suspended) : AsAlone(suspended[i].locals)

\* Both calls have returned a sorted list and the two instances are left with
\* different weights.
C19_Witness ==
    /\ calls = 2
    /\ pc = "SORTED"
    /\ suspended # << >>
    /\ suspended[1].locals.pc = "SORTED"
    /\ suspended[1].instance.weights # weights

\* The calls in progress or returned: the running one and the suspended one.
BothCalls == {Locals} \cup {suspended[i].locals : i \in 1..Len(suspended)}

\* The weights _adjust_weights_for_query writes for a call that has its
\* intent.
WeightsFor(c) == adjust_weights_for_query(base_weights, c.query, c.query_intent)

\* What the call with these locals returns when its three scorers read the
\* weights w.
\* The batch of a call after _preprocess_contexts.
CallBatch(c) ==
    preprocess_contexts([i \in 1..Len(c.arg_ids) |-> Catalog[c.arg_ids[i]]],
                        c.query_intent)

CallWith(c, w) == AlonePreprocessed(CallBatch(c), w, c.query, c.query_intent)

\* The other call has passed _adjust_weights_for_query and the weights it
\* wrote there are not the ones this call writes.
OtherWroteOtherWeights(c) ==
    \E o \in BothCalls \ {c} :
        /\ o.pc \notin {"RAW", "EXTRACTED"}
        /\ ~IsNone(o.query_intent)
        /\ ~CallBatch(o).raised
        /\ WeightsFor(o) # WeightsFor(c)

\* C20: two calls share one instance with no lock around the weights: a call
\* returns something else than it returns when run alone only where the
\* other call has written weights other than its own; the weights are what
\* has to be guarded, two calls that write the same weights do not disturb
\* each other.
C20_OnlyWeightsDisturb ==
    calls = 2 => \A c \in BothCalls : ~AsAlone(c) => OtherWroteOtherWeights(c)

\* The interleaving of the claim: the running call has returned a sorted
\* list, all three of its scorers read the weights the other call wrote for
\* its own query, and its final scores are not those of its run alone.
C20_Witness ==
    /\ calls = 2
    /\ pc = "SORTED"
    /\ suspended # << >>
    /\ ~IsNone(suspended[1].locals.query_intent)
    /\ suspended[1].locals.query # query
    /\ weights = WeightsFor(suspended[1].locals)
    /\ weights # WeightsFor(Locals)
    /\ contexts = CallWith(Locals, weights).contexts
    /\ CallAlone(Locals).pc = "SORTED"
    /\ FinalScores(contexts) # FinalScores(CallAlone(Locals).contexts)


\* The keys of a FeatureRecord that the model carries (parameter_types and
\* docstring, which no stage reads, are left out of it).
FeatureKeys ==
    {"function_name", "parameters", "return_type", "has_docstring", "imports",
     "from_imports", "if_count", "else_count", "for_count", "while_count",
     "try_count", "except_count", "function_calls", "functions_defined",
     "classes_defined", "line_count", "complexity", "error_handling", "text"}

\* C21: extract_components never fails, whatever the text: when the text
\* does not parse it returns what the regex fallback finds, and it always
\* returns a record with every key of a FeatureRecord.
C21_ExtractNeverFails ==
    pc \in ExtractEnds =>
        /\ pc = "EXTRACT_RETURNED"
        /\ FeatureKeys \subseteq DOMAIN contexts[1]
        /\ ~contexts[1].text.syntax_ok =>
               contexts[1] = fallback_extraction(contexts[1].text)

\* complexity as the sum of the record's own fields, in tenths.
ComplexityOf(r) ==
    Flt(10 * (r.if_count + 2 * r.for_count + 2 * r.while_count + r.try_count)
        + 5 * (r.except_count + Len(r.function_calls.items) + Len(r.parameters))
        + r.line_count, 10)

ControlCounts(r) ==
    <<r.if_count, r.else_count, r.for_count, r.while_count, r.try_count,
      r.except_count, Len(r.function_calls.items), Len(r.parameters)>>

\* C22: on the tree path and on the fallback path alike the complexity of a
\* returned record is if + 2*for + 2*while + try + 0.5*except
\* + 0.5*len(function_calls) + 0.5*len(parameters) + 0.1*line_count of that
\* same record, to one decimal; the empty text gives counts of 0, a
\* line_count of 1 and a complexity of 0.1.
C22_ComplexityFromFinalFields ==
    pc = "EXTRACT_RETURNED" =>
        /\ contexts[1].complexity = ComplexityOf(contexts[1])
        /\ contexts[1].text = EmptySource =>
               /\ ControlCounts(contexts[1]) = <<0, 0, 0, 0, 0, 0, 0, 0>>
               /\ contexts[1].line_count = 1
               /\ contexts[1].complexity = Flt(1, 10)

\* A record from the fallback path whose loops, calls, parameters and except
\* clause all count, and the record of the empty text.
C22_Witness ==
    /\ pc = "EXTRACT_RETURNED"
    /\ ~contexts[1].text.syntax_ok
    /\ contexts[1].for_count > 0
    /\ contexts[1].while_count > 0
    /\ contexts[1].except_count > 0
    /\ contexts[1].parameters # << >>
    /\ contexts[1].function_calls.items # << >>
    /\ contexts[1].line_count = 12

\* C23: on the tree path error_handling is true exactly when the function
\* holds a try and an except handler; a try with only a finally gives false.
C23_ErrorHandlingNeedsHandler ==
    pc = "EXTRACT_RETURNED" /\ contexts[1].text.syntax_ok =>
        (contexts[1].error_handling
            <=> contexts[1].try_count > 0 /\ contexts[1].except_count > 0)

\* A dict without its imports.
WithoutImports(components) ==
    IF components = << >> THEN components
    ELSE [components EXCEPT !.imports = << >>, !.from_imports = << >>]

\* The weights of the features other than the imports: seven counts at 0.5
\* and, when both dicts have a line_count, the length at 0.3.
WeightWithoutImports(components, reference) ==
    IF Has(components, "line_count") /\ Has(reference, "line_count")
    THEN Flt(38, 10) ELSE Flt(35, 10)

\* The names a dict imports, plainly or from a module.
Imported(components) ==
    IF components = << >> THEN {}
    ELSE Range(components.imports) \cup Range(components.from_imports)

\* C24: when the reference imports nothing the import feature is in neither
\* the numerator nor the denominator of the structure score, whatever the
\* candidate imports; otherwise it enters both with weight 1.5 and the
\* similarity |candidate imports with reference imports| / |reference imports|.
C24_ImportFeature ==
    pc = "COMPARED" =>
        LET c == contexts[1].components
            ref == answer_components
            rest == compute_structure_similarity(WithoutImports(c),
                                                 WithoutImports(ref)).v
            w == WeightWithoutImports(c, ref)
            shared == Flt(Cardinality(Imported(c) \cap Imported(ref)),
                          Cardinality(Imported(ref)))
        IN  IF Imported(ref) = {}
            THEN contexts[1].structure_score = rest
            ELSE Mul(contexts[1].structure_score, Add(w, Flt(15, 10)))
                 = Add(Mul(rest, w), Mul(Flt(15, 10), shared))

\* A candidate that imports is compared with a reference dict that imports
\* nothing, and scores less than 1.
C24_Witness ==
    /\ pc = "COMPARED"
    /\ Imported(contexts[1].components) # {}
    /\ answer_components # << >>
    /\ Imported(answer_components) = {}
    /\ Lt(contexts[1].structure_score, One)

\* The stages of one call of rerank, the three scorers in the order of
\* self.rerankers.
StageOrder ==
    <<"RAW", "EXTRACTED", "WEIGHTED", "STRUCTURE", "SIGNATURE", "SCORED",
      "ROLE_ADJUSTED", "NORMALIZED", "HEURISTIC_ADJUSTED", "SORTED">>

StageIndex(stage) == CHOOSE i \in 1..Len(StageOrder) : StageOrder[i] = stage

\* What a stage left on the contexts under `key`, by context.
Written(cs, key) ==
    {<<cs[i].id>> \o (IF Has(cs[i], key) THEN <<cs[i][key]>> ELSE << >>) :
       i \in 1..Len(cs)}

\* C25: a call that does not fail goes through RAW, EXTRACTED, WEIGHTED, the
\* Structure, Signature and Semantic scorers, ROLE-ADJUSTED, NORMALIZED,
\* HEURISTIC-ADJUSTED and SORTED, each once and in this order: a stage is
\* entered from the stage before it only, the weights are written before the
\* first scorer only, normalized scores are written after the role
\* adjustment only and quality boosts after the normalization only; nothing
\* follows SORTED but the caller's next call.
C25_StagesInOrder ==
    [][/\ pc' \in Range(StageOrder) \ {"RAW"} =>
              /\ pc \in Range(StageOrder)
              /\ StageIndex(pc') = StageIndex(pc) + 1
              /\ calls' = calls
       /\ pc = "SORTED" => pc' = "RAW" /\ calls' = calls + 1
       /\ weights' # weights => pc = "EXTRACTED" /\ pc' = "WEIGHTED"
       /\ pc' # "RAW" /\ Written(contexts', "normalized_score")
                            # Written(contexts, "normalized_score")
              => pc = "ROLE_ADJUSTED"
       /\ pc' # "RAW" /\ Written(contexts', "quality_boost")
                            # Written(contexts, "quality_boost")
              => pc = "NORMALIZED"]_vars

\* A first call has returned sorted contexts that carry what each stage
\* writes: the three scorers' entries, a normalized score, a quality boost.
C25_Witness ==
    /\ pc = "SORTED"
    /\ calls = 1
    /\ Len(contexts) > 1
    /\ \A i \in 1..Len(contexts) :
          /\ Has(contexts[i], "previous_scores")
          /\ DOMAIN contexts[i].previous_scores
                = {"structure_score", "signature_score", "semantic_score"}
          /\ Has(contexts[i], "normalized_score")
          /\ Has(contexts[i], "quality_boost")

\* The place of the context `id` in cs.
PlaceOf(cs, id) == CHOOSE k \in 1..Len(cs) : cs[k].id = id

Tied(a, b) == Get(a, "final_score", Zero) = Get(b, "final_score", Zero)

\* C26: the final sort is stable: two contexts of equal final_score leave it
\* in the order in which they entered it, which is the order the Semantic
\* scorer's own sort left (the stages between them reorder nothing) and
\* need not be the order of the caller's list.
C26_StableFinalSort ==
    [][/\ pc = "HEURISTIC_ADJUSTED" /\ pc' = "SORTED" =>
              \A i, j \in 1..Len(contexts) :
                  i < j /\ Tied(contexts[i], contexts[j]) =>
                      PlaceOf(contexts', contexts[i].id)
                          < PlaceOf(contexts', contexts[j].id)
       /\ pc \in {"SCORED", "ROLE_ADJUSTED", "NORMALIZED"} /\ pc' # "FAILED" =>
              Ids(contexts') = Ids(contexts)]_vars

\* A sorted list with two contexts of equal final_score, first and second,
\* behind which stands the context the caller had put first.
C26_Witness ==
    /\ pc = "SORTED"
    /\ Len(contexts) = 3
    /\ Tied(contexts[1], contexts[2])
    /\ ~Tied(contexts[2], contexts[3])
    /\ contexts[1].id < contexts[2].id
    /\ contexts[3].id = arg_ids[1]

\* The context's record names a return type: a return_type that is neither
\* None nor the empty list of candidates.
HasReturnType(components) ==
    Has(components, "return_type") /\ components.return_type \notin {None, "[]"}

\* The boosts of the quality heuristic as stated, in hundredths.
StatedQualityParts(components, intent) ==
    LET expected == Len(Get(intent, "parameters", << >>))
        actual == Len(Get(components, "parameters", << >>))
        lines == Get(components, "line_count", 0)
        label == Get(intent, "complexity", "medium")
    IN  <<IF Get(intent, "has_docstring", FALSE)
             /\ Get(components, "has_docstring", FALSE) THEN 8 ELSE 0,
          IF Get(intent, "error_handling", FALSE)
             /\ Get(components, "error_handling", FALSE) THEN 10 ELSE 0,
          IF \/ label = "low" /\ lines \in 3..15
             \/ label = "medium" /\ lines \in 10..30
             \/ label = "high" /\ lines >= 20 THEN 5 ELSE 0,
          IF expected = 0 THEN 0
          ELSE IF expected = actual THEN 8
          ELSE IF expected - actual \in {-1, 1} THEN 4 ELSE 0,
          IF Get(Get(intent, "return_value", << >>), "has_return", FALSE)
             /\ HasReturnType(components) THEN 5 ELSE 0>>

StatedQuality(components, intent) ==
    LET parts == StatedQualityParts(components, intent)
    IN  Flt(parts[1] + parts[2] + parts[3] + parts[4] + parts[5], 100)

\* C27: the quality heuristic records as quality_boost, and adds to
\* final_score, the sum of 0.08 (docstring expected and present), 0.10 (error
\* handling expected and present), 0.05 (line_count in the band of the
\* query's complexity), 0.08 or 0.04 (parameter counts equal or one apart,
\* when the query names parameters) and 0.05 (a return expected and a return
\* type present), so that 0 <= quality_boost <= 0.36.
C27_QualityBoostIsStatedSum ==
    pc = "QUALITY_APPLIED" =>
        LET stated == StatedQuality(contexts[1].components, query_intent)
        IN  /\ contexts[1].quality_boost = stated
            /\ contexts[1].final_score = Add(Flt(5, 10), stated)
            /\ Le(Zero, contexts[1].quality_boost)
            /\ Le(contexts[1].quality_boost, Flt(36, 100))

\* The extractor found no function in the context's text.
Nameless(ctx) ==
    Has(ctx, "components") /\ Get(ctx.components, "function_name", << >>) = << >>

\* C28: at EXTRACTED a context whose extracted function name is empty has
\* received no name-match boost, whatever the intent: its final_score is its
\* retrieval score, the empty name being no exact, substring or
\* potential-name match.
C28_NamelessGetsNoBoost ==
    pc = "EXTRACTED" =>
        \A i \in 1..Len(contexts) :
            Nameless(contexts[i]) =>
                contexts[i].final_score = contexts[i].score

\* The contexts on which the scorer that writes `key` completed its loop body
\* (the key is written and the retrieval score is a number, so the addition
\* to final_score did not raise), and those it never reached.
ScoredBy(cs, key) ==
    {i \in 1..Len(cs) : Has(cs[i], key) /\ ~IsStr(cs[i].score)}

NotReached(cs, key) == {i \in 1..Len(cs) : ~Has(cs[i], key)}

\* C29: each scorer's contribution is applied to the whole batch or to none
\* of it: once a call has normalized its batch, and when it has sorted it,
\* there is no scorer that contributed to some contexts of the batch and
\* never reached others.
C29_ScorerAllOrNone ==
    calls = 1 /\ pc \in {"NORMALIZED", "HEURISTIC_ADJUSTED", "SORTED"} =>
        \A key \in {"structure_score", "signature_score", "semantic_score"} :
            ScoredBy(contexts, key) = {} \/ NotReached(contexts, key) = {}

\* The score and boost fields of a context.
ScopedFields ==
    {"final_score", "structure_score", "signature_score", "semantic_score",
     "previous_scores", "name_match_boost", "normalized_score", "quality_boost",
     "file_op_boost", "string_op_boost", "helper_boost", "main_boost"}

ScoresOf(ctx) == [key \in ScopedFields \cap DOMAIN ctx |-> ctx[key]]

\* C30: the scores of a context belong to one call: when the list a first
\* call returned is passed to a second call, every score or boost field a
\* context carries after the second call has the value that call gives it
\* on contexts no call has seen, and no field of the first call is left.
C30_ScoresOfThisCallOnly ==
    calls = 2 /\ pc = "SORTED" /\ CallAlone(Locals).pc = "SORTED" =>
        LET alone == CallAlone(Locals).contexts
        IN  \A i \in 1..Len(contexts) :
                ScoresOf(contexts[i])
                    = ScoresOf(alone[PlaceOf(alone, contexts[i].id)])

====
